---- MODULE Spec2Model ----
(***************************************************************************)
(* A model of the two CI helper scripts of the-lupaxa-project/workflows:   *)
(*                                                                         *)
(*   .github/scripts/check-jobs.py     job status summariser               *)
(*   .github/scripts/send-to-slack.py  Slack workflow status notifier      *)
(*                                                                         *)
(* One behaviour is one invocation of one of the two scripts.  Python      *)
(* strings are sequences of one-character strings, so that strip, lower,   *)
(* casefold, split, rsplit and the f-string concatenations are computed    *)
(* and not assumed.  JSON values are tagged records.                       *)
(***************************************************************************)
EXTENDS Integers, Sequences, FiniteSets, TLC

\* ------------------------------------------------------------------------
\* Bounds of the model
\* ------------------------------------------------------------------------

\* longest "jobs" list / largest number of top-level keys of a document
MaxJobs == 2

\* largest number of positional command-line arguments
MaxArgs == 2

\* ------------------------------------------------------------------------
\* Python strings
\* ------------------------------------------------------------------------

UpperSeq == << "A","B","C","D","E","F","G","H","I","J","K","L","M",
               "N","O","P","Q","R","S","T","U","V","W","X","Y","Z" >>

LowerSeq == << "a","b","c","d","e","f","g","h","i","j","k","l","m",
               "n","o","p","q","r","s","t","u","v","w","x","y","z" >>

\* the characters str.strip() removes (those that occur in the model)
Whitespace == {" ", "\t", "\n"}

\* the lower-case letter of every upper-case letter
LowerMap ==
  [c \in {UpperSeq[i] : i \in DOMAIN UpperSeq} |->
     LowerSeq[CHOOSE i \in DOMAIN UpperSeq : UpperSeq[i] = c]]

LowerChar(c) == IF c \in DOMAIN LowerMap THEN LowerMap[c] ELSE c

\* str.lower(), and str.casefold() on the ASCII letters of the model
Lower(s) == [i \in 1..Len(s) |-> LowerChar(s[i])]

casefold(s) == Lower(s)

\* str.strip()
Strip(s) ==
  LET keep == {i \in 1..Len(s) : s[i] \notin Whitespace}
  IN  IF keep = {} THEN << >>
      ELSE LET lo == CHOOSE i \in keep : \A j \in keep : i <= j
               hi == CHOOSE i \in keep : \A j \in keep : j <= i
           IN  SubSeq(s, lo, hi)

\* c in s
Contains(s, c) == \E i \in 1..Len(s) : s[i] = c

\* s.rsplit(c, 1)[-1] for a string that contains c
AfterLast(s, c) ==
  LET at == {i \in 1..Len(s) : s[i] = c}
      k  == CHOOSE i \in at : \A j \in at : j <= i
  IN  SubSeq(s, k + 1, Len(s))

\* s.split(c): the parts between the occurrences of c, empty parts kept
RECURSIVE Split(_, _)
Split(s, c) ==
  IF ~Contains(s, c) THEN << s >>
  ELSE LET k == CHOOSE i \in 1..Len(s) :
                  s[i] = c /\ \A j \in 1..(i - 1) : s[j] # c
       IN  << SubSeq(s, 1, k - 1) >> \o Split(SubSeq(s, k + 1, Len(s)), c)

\* s.endswith(t)
EndsWith(s, t) ==
  /\ Len(t) <= Len(s)
  /\ SubSeq(s, Len(s) - Len(t) + 1, Len(s)) = t

\* the elements of a sequence
Range(s) == {s[i] : i \in 1..Len(s)}

\* the string literals of the two scripts
S_success   == << "s","u","c","c","e","s","s" >>
S_failure   == << "f","a","i","l","u","r","e" >>
S_cancelled == << "c","a","n","c","e","l","l","e","d" >>
S_skipped   == << "s","k","i","p","p","e","d" >>
S_timed_out == << "t","i","m","e","d","_","o","u","t" >>
S_unknown   == << "u","n","k","n","o","w","n" >>
S_completed == << "c","o","m","p","l","e","t","e","d" >>
S_all       == << "a","l","l" >>
S_jobs      == << "j","o","b","s" >>
S_None      == << "N","o","n","e" >>
S_empty     == << >>

\* the characters of the strings that are sorted (bucket entries, job
\* names), in the order of their code points
CodeOrder ==
  << " ", "/", ":", "B", "D", "T", "Z", "a", "b", "d", "e", "i", "l", "o",
     "p", "s", "t", "u", "x", "y" >>

OrdMap ==
  [c \in {CodeOrder[i] : i \in DOMAIN CodeOrder} |->
     CHOOSE i \in DOMAIN CodeOrder : CodeOrder[i] = c]

\* a < b for two strings
StrLess(a, b) ==
  \E k \in 1..(Len(a) + 1) :
    /\ k <= Len(b) + 1
    /\ \A i \in 1..(k - 1) : a[i] = b[i]
    /\ \/ k = Len(a) + 1 /\ k <= Len(b)
       \/ k <= Len(a) /\ k <= Len(b) /\ OrdMap[a[k]] < OrdMap[b[k]]

\* ------------------------------------------------------------------------
\* JSON values as json.loads returns them
\* ------------------------------------------------------------------------

\* a key a dict does not hold
Absent == [t |-> "absent"]

Null == [t |-> "null"]

Str(s) == [t |-> "str", s |-> s]

Num(n) == [t |-> "num", n |-> n]

List(xs) == [t |-> "list", xs |-> xs]

\* an inner object: a record from its field names to JSON values
Obj(f) == [t |-> "obj", f |-> f]

\* the top-level object: the (key, value) pairs in document order
Dict(items) == [t |-> "dict", items |-> items]

\* an object without any key
NoFields == [k \in {} |-> Null]

\* isinstance(v, dict)
IsDict(v) == v.t \in {"obj", "dict"}

\* dict.get(k) on an inner object (None is modelled by Absent's falsiness
\* where the code only tests truth, and by Null where it is kept)
Get(o, k) == IF k \in DOMAIN o.f THEN o.f[k] ELSE Absent

\* dict.get(k) on the top-level object, k a string of the model
TopGet(d, k) ==
  IF \E i \in 1..Len(d.items) : d.items[i][1] = k
  THEN d.items[CHOOSE i \in 1..Len(d.items) : d.items[i][1] = k][2]
  ELSE Absent

\* bool(v)
Truthy(v) ==
  CASE v.t = "str"  -> v.s # << >>
    [] v.t = "num"  -> v.n # 0
    [] v.t = "list" -> v.xs # << >>
    [] v.t = "obj"  -> DOMAIN v.f # {}
    [] v.t = "dict" -> v.items # << >>
    [] OTHER        -> FALSE

\* a or b
Or(a, b) == IF Truthy(a) THEN a ELSE b

Digits == << "0","1","2","3","4","5","6","7","8","9" >>

\* str(v) for the values of the model: a missing key read by .get(k) and a
\* JSON null are both None
PyStr(v) ==
  CASE v.t = "str"  -> v.s
    [] v.t = "num"  -> << Digits[v.n + 1] >>
    [] v.t = "list" -> << "[", "]" >>
    [] v.t = "obj"  -> << "{", "}" >>
    [] OTHER        -> S_None

\* ------------------------------------------------------------------------
\* check-jobs.py: pure functions
\* ------------------------------------------------------------------------

\* a line print(..., file=sys.stderr) writes: error() writes the prefix
\* "ERROR: " before its message, every other print writes its text as it is
print_line(text) == [prefix |-> "", text |-> text]

\* error(message): the line f"ERROR: {message}"
error_line_no_prefix(message) == [prefix |-> "", text |-> message]

error_line(message) == [prefix |-> "ERROR: ", text |-> message]

\* error(message, code=1): the status SystemExit carries
error_code == 1

\* normalise_job_name(raw)
normalise_after_first_slash(raw) ==
  Strip(IF Contains(raw, "/")
        THEN SubSeq(raw, 1 + (CHOOSE i \in 1..Len(raw) :
                                raw[i] = "/" /\ \A j \in 1..(i - 1) : raw[j] # "/"),
                    Len(raw))
        ELSE raw)

normalise_without_strip(raw) ==
  IF Contains(raw, "/") THEN AfterLast(raw, "/") ELSE raw

normalise_job_name(raw) ==
  Strip(IF Contains(raw, "/") THEN AfterLast(raw, "/") ELSE raw)

\* parse_ignored_jobs(raw): the set of normalised, case-folded entries
parse_ignored_jobs(raw) ==
  LET parts == Split(raw, ",")
  IN  { casefold(normalise_job_name(parts[i])) :
          i \in {j \in 1..Len(parts) : normalise_job_name(parts[j]) # << >>} }

\* main(): ignored_job_names stays None (modelled by the empty set, which
\* bucket_jobs treats alike) unless the raw setting has a non-blank character
ignored_from_env(raw) ==
  IF Strip(raw) # << >> THEN parse_ignored_jobs(raw) ELSE {}

\* _extract_api_jobs, one element of the jobs list: the records it appends
api_job_records_keep_empty(job) ==
  IF ~IsDict(job) THEN << >>
  ELSE IF Lower(PyStr(Or(Get(job, "status"), Str(S_empty)))) # S_completed
       THEN << >>
       ELSE LET name == Get(job, "name")
                conc == Get(job, "conclusion")
                raw_name   == PyStr(IF name = Absent THEN Str(S_empty) ELSE name)
                conclusion == PyStr(IF conc = Absent THEN Str(S_unknown) ELSE conc)
            IN  << << raw_name, conclusion >> >>

api_job_records(job) ==
  IF ~IsDict(job) THEN << >>
  ELSE IF Lower(PyStr(Or(Get(job, "status"), Str(S_empty)))) # S_completed
       THEN << >>
       ELSE LET name == Get(job, "name")
                conc == Get(job, "conclusion")
                raw_name   == PyStr(IF name = Absent THEN Str(S_empty) ELSE name)
                conclusion == PyStr(Or(IF conc = Absent THEN Str(S_unknown) ELSE conc,
                                       Str(S_unknown)))
            IN  << << raw_name, conclusion >> >>

RECURSIVE api_records(_)
api_records(jobs) ==
  IF jobs = << >> THEN << >>
  ELSE api_job_records(Head(jobs)) \o api_records(Tail(jobs))

\* _extract_api_jobs(data): None (matched = FALSE) unless "jobs" is a list
extract_api_jobs_none_when_empty(data) ==
  LET jobs == TopGet(data, S_jobs)
  IN  IF jobs.t # "list" \/ api_records(jobs.xs) = << >>
      THEN [matched |-> FALSE, records |-> << >>]
      ELSE [matched |-> TRUE, records |-> api_records(jobs.xs)]

extract_api_jobs(data) ==
  LET jobs == TopGet(data, S_jobs)
  IN  IF jobs.t # "list"
      THEN [matched |-> FALSE, records |-> << >>]
      ELSE [matched |-> TRUE, records |-> api_records(jobs.xs)]

\* _extract_needs_jobs, one (key, value) item
needs_item_record_conclusion_first(item) ==
  LET value  == item[2]
      result == IF IsDict(value)
                THEN Or(Or(Get(value, "conclusion"), Get(value, "result")),
                        Str(S_unknown))
                ELSE Str(S_unknown)
  IN  << item[1], PyStr(result) >>

needs_item_record(item) ==
  LET value  == item[2]
      result == IF IsDict(value)
                THEN Or(Or(Get(value, "result"), Get(value, "conclusion")),
                        Str(S_unknown))
                ELSE Str(S_unknown)
  IN  << item[1], PyStr(result) >>

\* _extract_needs_jobs(data)
extract_needs_jobs(data) ==
  [i \in 1..Len(data.items) |-> needs_item_record(data.items[i])]

\* bucket_jobs, step 1: job_records
job_records_of_fallback(data) ==
  LET api == extract_api_jobs(data)
  IN  IF api.matched /\ api.records # << >>
      THEN api.records
      ELSE extract_needs_jobs(data)

job_records_of(data) ==
  LET api == extract_api_jobs(data)
  IN  IF api.matched THEN api.records ELSE extract_needs_jobs(data)

\* the keys of the buckets dict
NamedBuckets == {S_success, S_failure, S_cancelled, S_skipped, S_timed_out}

EmptyBuckets ==
  [success |-> << >>, failure |-> << >>, cancelled |-> << >>,
   skipped |-> << >>, timed_out |-> << >>, other |-> << >>]

\* the field of the result tuple the list buckets[result] is
bucket_field(result) ==
  CASE result = S_success   -> "success"
    [] result = S_failure   -> "failure"
    [] result = S_cancelled -> "cancelled"
    [] result = S_skipped   -> "skipped"
    [] result = S_timed_out -> "timed_out"
    [] OTHER                -> "other"

\* ignored_normalised
ignored_normalised_of(ignored_job_names) ==
  IF ignored_job_names # {}
  THEN {casefold(n) : n \in ignored_job_names}
  ELSE {}

\* the two "continue" tests of the bucketing loop
skip_job_umbrella(job_name, ignored_normalised) ==
  \/ job_name = << >>
  \/ ignored_normalised # {} /\ casefold(job_name) \in ignored_normalised
  \/ EndsWith(job_name, << "S","t","a","t","u","s" >>)

skip_job_case_sensitive(job_name, ignored_normalised) ==
  \/ job_name = << >>
  \/ ignored_normalised # {} /\ job_name \in ignored_normalised

skip_job(job_name, ignored_normalised) ==
  \/ job_name = << >>
  \/ ignored_normalised # {} /\ casefold(job_name) \in ignored_normalised

\* the entry of the other bucket: f"{job_name}:{result}"
other_label_bare(job_name, result) == job_name

other_label(job_name, result) == job_name \o << ":" >> \o result

\* one iteration of the bucketing loop
bucket_one_drop_other(b, rec, ignored_normalised) ==
  LET job_name == normalise_job_name(rec[1])
      result   == IF rec[2] # << >> THEN rec[2] ELSE S_unknown
  IN  IF skip_job(job_name, ignored_normalised) THEN b
      ELSE IF result \in NamedBuckets
           THEN [b EXCEPT ![bucket_field(result)] = Append(@, job_name)]
           ELSE b

bucket_one_any_case(b, rec, ignored_normalised) ==
  LET job_name == normalise_job_name(rec[1])
      result   == IF rec[2] # << >> THEN rec[2] ELSE S_unknown
  IN  IF skip_job(job_name, ignored_normalised) THEN b
      ELSE IF Lower(result) \in NamedBuckets
           THEN [b EXCEPT ![bucket_field(Lower(result))] = Append(@, job_name)]
           ELSE [b EXCEPT !.other = Append(@, other_label(job_name, result))]

bucket_one(b, rec, ignored_normalised) ==
  LET job_name == normalise_job_name(rec[1])
      result   == IF rec[2] # << >> THEN rec[2] ELSE S_unknown
  IN  IF skip_job(job_name, ignored_normalised) THEN b
      ELSE IF result \in NamedBuckets
           THEN [b EXCEPT ![bucket_field(result)] = Append(@, job_name)]
           ELSE [b EXCEPT !.other = Append(@, other_label(job_name, result))]

\* the bucketing loop over job_records
RECURSIVE bucket_records(_, _, _)
bucket_records(b, records, ignored_normalised) ==
  IF records = << >> THEN b
  ELSE bucket_records(bucket_one(b, Head(records), ignored_normalised),
                      Tail(records), ignored_normalised)

\* main(): file mode iff exactly one positional argument
file_mode_any_argument(nargs) == nargs + 1 >= 2

file_mode_two_arguments(nargs) == nargs + 1 = 3

file_mode(nargs) == nargs + 1 = 2

\* ------------------------------------------------------------------------
\* The inputs of an invocation
\* ------------------------------------------------------------------------

\* all sequences over S of length at most n
SeqsUpTo(S, n) == UNION {[1..k -> S] : k \in 0..n}

\* raw job names
N_org_Build == << "o","r","g","/","B","u","i","l","d" >>
N_build     == << "b","u","i","l","d" >>
N_CI_Status == << "C","I"," ","S","t","a","t","u","s" >>
N_Test      == << " ","T","e","s","t"," " >>
N_x_slash   == << "x","/" >>
N_extra     == << "e","x","t","r","a" >>

\* raw results beside the five known ones
R_neutral   == << "n","e","u","t","r","a","l" >>
R_Success   == << "S","u","c","c","e","s","s" >>

\* the job statuses of the jobs API
ST_in_progress == << "i","n","_","p","r","o","g","r","e","s","s" >>
ST_Completed   == << "C","o","m","p","l","e","t","e","d" >>

\* an element of the "jobs" list with the keys that are not Absent
JobObj(status, name, conclusion) ==
  LET full == [status |-> status, name |-> name, conclusion |-> conclusion]
  IN  Obj([k \in {x \in DOMAIN full : full[x] # Absent} |-> full[k]])

JobNames == {N_org_Build, N_build, N_CI_Status, N_Test, N_x_slash}

JobConclusions ==
  {Str(S_success), Str(S_failure), Str(S_cancelled), Str(S_skipped),
   Str(S_timed_out), Str(R_neutral), Str(R_Success), Str(S_empty), Null, Absent}

\* the elements a "jobs" list is drawn from: every name with a success, one
\* name with every conclusion, and the elements the extraction passes over
JobElems ==
  {JobObj(Str(S_completed), Str(n), Str(S_success)) : n \in JobNames}
    \cup {JobObj(Str(S_completed), Str(N_org_Build), c) : c \in JobConclusions}
    \cup {JobObj(Str(S_completed), Str(N_CI_Status), Str(S_failure)),
          JobObj(Str(ST_in_progress), Str(N_build), Null),
          JobObj(Str(ST_Completed), Str(N_build), Str(S_success)),
          JobObj(Absent, Str(N_build), Str(S_success)),
          JobObj(Str(S_completed), Null, Str(S_success)),
          JobObj(Str(S_completed), Absent, Str(S_failure)),
          Str(N_build)}

\* the values of a toJson(needs) style mapping
NeedsValues ==
  {Obj([result |-> Str(S_success)]),
   Obj([result |-> Str(S_failure)]),
   Obj([result |-> Str(R_neutral)]),
   Obj([conclusion |-> Str(S_cancelled)]),
   Obj([result |-> Str(S_empty), conclusion |-> Str(S_skipped)]),
   Obj([result |-> Str(S_timed_out), conclusion |-> Str(S_success)]),
   Obj(NoFields),
   Str(S_success)}

NeedsKeys == {N_build, N_CI_Status, N_x_slash, S_jobs}

\* Shape A documents: {"jobs": [...]}, the shorter ones also with another key
ShapeADocs ==
  {Dict(<< << S_jobs, List(xs) >> >>) : xs \in SeqsUpTo(JobElems, MaxJobs)}
    \cup {Dict(<< << S_jobs, List(xs) >>,
                  << N_extra, Obj([result |-> Str(S_failure)]) >> >>) :
            xs \in SeqsUpTo(JobElems, MaxJobs - 1)}

\* Shape B documents: a mapping with distinct keys and no "jobs" list
ShapeBDocs ==
  {Dict(items) : items \in
     {s \in SeqsUpTo(NeedsKeys \X NeedsValues, MaxJobs) :
        \A i, j \in 1..Len(s) : i # j => s[i][1] # s[j][1]}}

\* the jobs document of the worked example: three completed jobs
N_Test_plain == << "T","e","s","t" >>

ExampleDoc ==
  Dict(<< << S_jobs,
             List(<< JobObj(Str(S_completed), Str(N_org_Build), Str(S_success)),
                     JobObj(Str(S_completed), Str(N_Test_plain), Str(S_failure)),
                     JobObj(Str(S_completed), Str(N_CI_Status), Str(S_success)) >>) >> >>)

Docs == ShapeADocs \cup ShapeBDocs \cup {ExampleDoc}

\* the documents the whole-process specification loads: the ones over a few
\* elements, enough to reach every exit of bucket_jobs
CoreElems ==
  {JobObj(Str(S_completed), Str(N_org_Build), Str(S_success)),
   JobObj(Str(S_completed), Str(N_Test), Str(S_failure)),
   JobObj(Str(ST_in_progress), Str(N_build), Null)}

CoreDocs ==
  {Dict(<< << S_jobs, List(xs) >> >>) : xs \in SeqsUpTo(CoreElems, MaxJobs)}
    \cup {Dict(<< >>),
          Dict(<< << N_build, Obj([result |-> Str(S_success)]) >> >>),
          Dict(<< << N_build, Obj([result |-> Str(R_neutral)]) >>,
                  << S_jobs, Obj([result |-> Str(S_failure)]) >> >>)}

\* what json.loads gives for a body that is JSON but not an object
NonDictJson == {List(<< >>), Str(S_success)}

\* a body json.loads rejects
Invalid == [t |-> "invalid"]

\* the outcomes of urllib.request.urlopen(req) followed by json.loads
Responses(docs) ==
  {[kind |-> "HTTPError", body |-> b] : b \in {"", "{\"message\": \"Not Found\"}"}}
    \cup {[kind |-> "URLError"], [kind |-> "Exception"]}
    \cup {[kind |-> "status", status |-> 204, body |-> ""],
          [kind |-> "status", status |-> 202, body |-> "{}"]}
    \cup {[kind |-> "ok", json |-> j] : j \in {Invalid} \cup NonDictJson \cup docs}

\* the values of CHECK_JOBS_IGNORE_JOBS / SEND_TO_SLACK_IGNORE_JOBS
IgnoreRaws ==
  { << >>,
    << "b","u","i","l","d" >>,
    << " ","o","/","C","I"," ","S","T","A","T","U","S",",","T","e","s","t" >>,
    << " ",","," " >> }

\* the run documents of GET /repos/{repo}/actions/runs/{run_id} as the
\* commit-message lookup of check-jobs.py reads them
CommitRunDocs ==
  {Obj(NoFields),
   Obj([head_commit |-> Null]),
   Obj([head_commit |-> Obj([message |-> Str(<< " ","f","i","x"," " >>)])]),
   Obj([head_commit |-> Obj([message |-> Str(<< " " >>)])]),
   Obj([head_commit |-> Str(<< "a","b","c" >>)])}

\* ------------------------------------------------------------------------
\* State
\* ------------------------------------------------------------------------

VARIABLES
  script,         \* which of the two scripts runs
  nargs,          \* number of positional arguments (len(sys.argv) - 1)
  pc,             \* position of the process
  exitCode,       \* exit status, -1 while the process runs
  stderr,         \* the lines written to sys.stderr
  net,            \* the network requests made, in order
  fileReads,      \* the number of times the JSON file was opened
  data,           \* check-jobs: the jobs document
  commit_message, \* check-jobs: os.environ["GITHUB_COMMIT_MESSAGE"]
  ignoreRaw,      \* the raw ignore list read from the environment
  job_records,    \* bucket_jobs: job_records
  buckets,        \* bucket_jobs: the six lists
  summary,        \* the number of appends to the step summary file
  summary_path,   \* write_step_summary: summary_path
  workflow_run,   \* send-to-slack: the run document
  completed_jobs, \* send-to-slack: the completed jobs
  workflow_conclusion, \* send-to-slack: main()'s workflow_conclusion
  results_setting,     \* send-to-slack: main()'s results_setting
  payload,        \* send-to-slack: the payload built
  arg,            \* a function called on its own: its argument
  ret             \* a function called on its own: the results of its calls

vars == << script, nargs, pc, exitCode, stderr, net, fileReads, data,
           commit_message, ignoreRaw, job_records, buckets, summary,
           summary_path, workflow_run, completed_jobs, workflow_conclusion,
           results_setting, payload, arg, ret >>

cjVars == << data, commit_message, ignoreRaw, job_records, buckets, summary,
             summary_path, fileReads >>

slVars == << workflow_run, completed_jobs, workflow_conclusion,
             results_setting, payload >>

fnVars == << arg, ret >>

\* a value not yet computed
NoData == [t |-> "none"]

NoPayload == [built |-> FALSE]

Init ==
  /\ script \in {"check-jobs", "send-to-slack"}
  /\ nargs \in (IF script = "check-jobs" THEN 0..MaxArgs ELSE {0})
  /\ pc = "main"
  /\ exitCode = -1
  /\ stderr = << >>
  /\ net = << >>
  /\ fileReads = 0
  /\ data = NoData
  /\ commit_message = << >>
  /\ ignoreRaw = << >>
  /\ job_records = << >>
  /\ buckets = EmptyBuckets
  /\ summary = 0
  /\ summary_path = NoData
  /\ workflow_run = NoData
  /\ completed_jobs = << >>
  /\ workflow_conclusion = << >>
  /\ results_setting = << >>
  /\ payload = NoPayload
  /\ arg = << >>
  /\ ret = << >>

\* error(message): the optional lines printed before it, then one
\* "ERROR: " line, then SystemExit(1)
Fatal_and_retry(before, message) ==
  /\ stderr' = stderr \o before \o << error_line(message) >>
  /\ UNCHANGED << exitCode, pc >>

Fatal(before, message) ==
  /\ stderr' = stderr \o before \o << error_line(message) >>
  /\ exitCode' = error_code
  /\ pc' = "exit"

\* main() returns: the interpreter exits with status 0
Finish ==
  /\ exitCode' = 0
  /\ pc' = "exit"

\* an exception no handler catches: the interpreter prints the traceback
\* and exits with status 1
Crash(exception) ==
  /\ stderr' = stderr \o << print_line("Traceback (most recent call last):"),
                            print_line(exception) >>
  /\ exitCode' = 1
  /\ pc' = "exit"

\* ------------------------------------------------------------------------
\* check-jobs.py: main()
\* ------------------------------------------------------------------------

\* load_jobs_json_from_file(sys.argv[1])
CJ_LoadFile ==
  /\ script = "check-jobs" /\ pc = "main"
  /\ file_mode(nargs)
  /\ \E out \in {[kind |-> "not_found"], [kind |-> "not_file"], [kind |-> "OSError"]}
              \cup {[kind |-> "read", json |-> j] :
                      j \in {Invalid} \cup NonDictJson \cup CoreDocs} :
       CASE out.kind = "not_found" ->
              /\ Fatal(<< >>, "JSON file not found: {path}")
              /\ UNCHANGED << fileReads, data >>
         [] out.kind = "not_file" ->
              /\ Fatal(<< >>, "JSON path is not a file: {path}")
              /\ UNCHANGED << fileReads, data >>
         [] out.kind = "OSError" ->
              /\ Fatal(<< >>, "Failed to read JSON file {path}: {exc}")
              /\ UNCHANGED << fileReads, data >>
         [] out.kind = "read" /\ out.json = Invalid ->
              /\ Fatal(<< >>, "JSON in file {path} is invalid: {exc}")
              /\ fileReads' = fileReads + 1
              /\ UNCHANGED data
         [] out.kind = "read" /\ out.json # Invalid /\ ~IsDict(out.json) ->
              /\ Fatal(<< >>, "Top-level JSON structure in {path} is not an object; a dictionary is required.")
              /\ fileReads' = fileReads + 1
              /\ UNCHANGED data
         [] OTHER ->
              /\ data' = out.json
              /\ fileReads' = fileReads + 1
              /\ pc' = "bucket"
              /\ UNCHANGED << stderr, exitCode >>
  /\ UNCHANGED << script, nargs, net, commit_message, ignoreRaw, job_records,
                  buckets, summary,
                  summary_path >>
  /\ UNCHANGED slVars
  /\ UNCHANGED fnVars

\* fetch_jobs_json_from_api(): _get_github_context_from_env()
CJ_GetContext ==
  /\ script = "check-jobs" /\ pc = "main"
  /\ ~file_mode(nargs)
  /\ \E env \in {"no_repo_or_run_id", "no_token", "ok"} :
       CASE env = "no_repo_or_run_id" ->
              Fatal(<< >>, "GITHUB_REPOSITORY or GITHUB_RUN_ID not set; cannot call GitHub API.")
         [] env = "no_token" ->
              Fatal(<< >>, "GITHUB_TOKEN (or ACTIONS_RUNTIME_TOKEN) is not set; cannot call GitHub API.")
         [] OTHER ->
              /\ pc' = "fetch_jobs"
              /\ UNCHANGED << stderr, exitCode >>
  /\ UNCHANGED << script, nargs, net >>
  /\ UNCHANGED cjVars
  /\ UNCHANGED slVars
  /\ UNCHANGED fnVars

\* _fetch_jobs_json(repo, run_id, token)
CJ_FetchJobs ==
  /\ script = "check-jobs" /\ pc = "fetch_jobs"
  /\ net' = Append(net, "jobs")
  /\ \E r \in Responses(CoreDocs) :
       CASE r.kind = "HTTPError" ->
              /\ Fatal(IF r.body # "" THEN << print_line(r.body) >> ELSE << >>,
                       "GitHub API returned HTTP {exc.code} when fetching jobs: {exc.reason}")
              /\ UNCHANGED data
         [] r.kind = "URLError" ->
              /\ Fatal(<< >>, "Failed to reach GitHub API when fetching jobs: {exc.reason}")
              /\ UNCHANGED data
         [] r.kind = "Exception" ->
              /\ Fatal(<< >>, "Unexpected error when calling GitHub jobs API: {exc}")
              /\ UNCHANGED data
         [] r.kind = "status" ->
              /\ Fatal(<< print_line("GitHub API response body (jobs):"),
                          print_line(r.body) >>,
                       "GitHub API returned HTTP {status} when fetching jobs.")
              /\ UNCHANGED data
         [] r.kind = "ok" /\ r.json = Invalid ->
              /\ Fatal(<< >>, "Failed to decode GitHub jobs API JSON: {exc}")
              /\ UNCHANGED data
         [] r.kind = "ok" /\ r.json # Invalid /\ ~IsDict(r.json) ->
              /\ Fatal(<< >>, "GitHub jobs API returned JSON, but the top-level structure is not an object as expected.")
              /\ UNCHANGED data
         [] OTHER ->
              /\ data' = r.json
              /\ pc' = "commit_message"
              /\ UNCHANGED << stderr, exitCode >>
  /\ UNCHANGED << script, nargs, fileReads, commit_message, ignoreRaw,
                  job_records, buckets, summary,
                  summary_path >>
  /\ UNCHANGED slVars
  /\ UNCHANGED fnVars

\* _maybe_set_commit_message_env(repo, run_id, token)
CJ_CommitMessage ==
  /\ script = "check-jobs" /\ pc = "commit_message"
  /\ net' = Append(net, "run")
  /\ \E r \in Responses(CommitRunDocs) :
       IF r.kind # "ok" \/ r.json = Invalid \/ ~IsDict(r.json)
       THEN \* every failure returns without a message
            /\ pc' = "bucket"
            /\ UNCHANGED << commit_message, stderr, exitCode >>
       ELSE LET head_commit == Or(Get(r.json, "head_commit"), Obj(NoFields))
            IN  IF ~IsDict(head_commit)
                THEN \* head_commit.get on a str
                     /\ Crash("AttributeError: 'str' object has no attribute 'get'")
                     /\ UNCHANGED commit_message
                ELSE LET message ==
                           Strip(PyStr(Or(Get(head_commit, "message"), Str(S_empty))))
                     IN  /\ commit_message' =
                               IF message # << >> THEN message ELSE commit_message
                         /\ pc' = "bucket"
                         /\ UNCHANGED << stderr, exitCode >>
  /\ UNCHANGED << script, nargs, fileReads, data, ignoreRaw, job_records,
                  buckets, summary,
                  summary_path >>
  /\ UNCHANGED slVars
  /\ UNCHANGED fnVars

\* main(): CHECK_JOBS_IGNORE_JOBS, parse_ignored_jobs, bucket_jobs
CJ_Bucket ==
  /\ script = "check-jobs" /\ pc = "bucket"
  /\ \E raw \in IgnoreRaws :
       LET ignored_job_names == ignored_from_env(raw)
           records == job_records_of(data)
       IN  /\ ignoreRaw' = raw
           /\ job_records' = records
           /\ IF records = << >>
              THEN /\ Fatal(<< >>, "Unsupported JSON structure for job results.")
                   /\ UNCHANGED buckets
              ELSE /\ buckets' = bucket_records(EmptyBuckets, records,
                                    ignored_normalised_of(ignored_job_names))
                   /\ pc' = "summary"
                   /\ UNCHANGED << stderr, exitCode >>
  /\ UNCHANGED << script, nargs, net, fileReads, data, commit_message, summary,
                  summary_path >>
  /\ UNCHANGED slVars
  /\ UNCHANGED fnVars

\* the values of GITHUB_STEP_SUMMARY: unset, empty, a path
P_summary == << "/","s","u","m","m","a","r","y",".","m","d" >>

SummaryPaths == {Absent, Str(S_empty), Str(P_summary)}

\* write_step_summary: "if not summary_path: return"
summary_disabled_never(path) == FALSE

summary_disabled(path) == ~Truthy(path)

\* write_step_summary(success, failure, cancelled, skipped, timed_out, other)
CJ_WriteStepSummary ==
  /\ script = "check-jobs" /\ pc = "summary"
  /\ \E path \in SummaryPaths, out \in {"written", "OSError"} :
       /\ summary_path' = path
       /\ IF summary_disabled(path)
          THEN /\ Finish
               /\ UNCHANGED << stderr, summary >>
          ELSE IF out = "written"
          THEN /\ summary' = summary + 1
               /\ Finish
               /\ UNCHANGED stderr
          ELSE /\ Fatal(<< >>, "Failed to open GITHUB_STEP_SUMMARY file for writing: {exc}")
               /\ UNCHANGED summary
  /\ UNCHANGED << script, nargs, net, fileReads, data, commit_message,
                  ignoreRaw, job_records, buckets >>
  /\ UNCHANGED slVars
  /\ UNCHANGED fnVars

\* ------------------------------------------------------------------------
\* send-to-slack.py: pure functions and inputs
\* ------------------------------------------------------------------------

\* a run document with the keys that are not Absent
RunObj(conclusion, status) ==
  LET full == [conclusion |-> conclusion, status |-> status]
  IN  Obj([k \in {x \in DOMAIN full : full[x] # Absent} |-> full[k]])

\* the run documents of GET /repos/{repo}/actions/runs/{run_id}
SlackRunDocs ==
  {RunObj(Str(S_success), Str(S_completed)),
   RunObj(Str(S_failure), Str(S_completed)),
   RunObj(Str(S_cancelled), Str(S_completed)),
   RunObj(Str(<< " " >> \o R_Success), Str(S_completed)),
   RunObj(Null, Str(ST_in_progress)),
   RunObj(Absent, Absent)}

\* a job element of the jobs endpoint, with its html_url
U_job == << "h","t","t","p","s",":","/","/","g","h","/","1" >>

SlackJob(status, name, conclusion, html_url) ==
  LET full == [status |-> status, name |-> name, conclusion |-> conclusion,
               html_url |-> html_url]
  IN  Obj([k \in {x \in DOMAIN full : full[x] # Absent} |-> full[k]])

SlackJobElems ==
  {SlackJob(Str(S_completed), Str(N_build), c, Str(U_job)) :
     c \in {Str(S_success), Str(S_failure), Str(S_cancelled), Str(S_skipped),
            Str(S_timed_out), Str(R_Success), Null}}
    \cup {SlackJob(Str(ST_in_progress), Str(N_build), Null, Str(U_job))}

\* the values of SEND_TO_SLACK_INCLUDE_JOBS and SEND_TO_SLACK_IGNORE_JOBS
M_true       == << "t","r","u","e" >>
M_false      == << "f","a","l","s","e" >>
M_on_failure == << "o","n","-","f","a","i","l","u","r","e" >>

IncludeModes == {M_true, M_false, << " ","O","n","-","F","a","i","l","u","r","e" >>}

SlackIgnoreRaws == {<< >>, << " ","o","/","B","U","I","L","D"," ",",","x","/" >>}

\* the jobs documents of GET .../jobs?per_page=N
SlackJobsDocs ==
  {Dict(<< << S_jobs, List(xs) >> >>) : xs \in SeqsUpTo(SlackJobElems, MaxJobs)}
    \cup {Dict(<< >>)}

\* the values of SEND_TO_SLACK_RESULTS
ResultsRaws ==
  { S_all,
    << " ","A","L","L"," " >>,
    << >>,
    S_success,
    S_failure \o << ","," " >> \o S_cancelled }

\* fetch_json: the lines printed before error() and its message, for a
\* response that is not a 200 JSON object
fetch_json_failure(r) ==
  CASE r.kind = "HTTPError" ->
         [before  |-> IF r.body # "" THEN << print_line(r.body) >> ELSE << >>,
          message |-> "GitHub API returned HTTP {exc.code} for {url}: {exc.reason}"]
    [] r.kind = "URLError" ->
         [before  |-> << >>,
          message |-> "Failed to reach GitHub API at {url}: {exc.reason}"]
    [] r.kind = "Exception" ->
         [before  |-> << >>,
          message |-> "Unexpected error when calling GitHub API at {url}: {exc}"]
    [] r.kind = "status" ->
         [before  |-> IF r.body # ""
                      THEN << print_line("GitHub API response body from {url}:"),
                              print_line(r.body) >>
                      ELSE << >>,
          message |-> "GitHub API returned HTTP {status} for {url}."]
    [] r.kind = "ok" /\ r.json = Invalid ->
         [before  |-> << >>,
          message |-> "Failed to decode JSON from {url}: {exc}"]
    [] OTHER ->
         [before  |-> << >>,
          message |-> "GitHub API returned JSON from {url}, but top-level is not an object."]

\* fetch_json returns data
fetch_json_ok(r) == r.kind = "ok" /\ r.json # Invalid /\ IsDict(r.json)

\* fetch_run_and_jobs: completed_jobs
completed_jobs_of(jobs_data) ==
  LET got      == TopGet(jobs_data, S_jobs)
      jobs_raw == IF got.t = "list" THEN got.xs ELSE << >>
  IN  SelectSeq(jobs_raw,
                LAMBDA job : IsDict(job) /\ Get(job, "status") = Str(S_completed))

\* get_workflow_conclusion(workflow_run)
get_workflow_conclusion(run) ==
  LET conclusion == Lower(Strip(PyStr(Or(Get(run, "conclusion"), Str(S_empty)))))
      status     == Lower(Strip(PyStr(Or(Get(run, "status"), Str(S_empty)))))
  IN  IF conclusion # << >> THEN conclusion
      ELSE IF status # << >> THEN status
      ELSE S_unknown

\* determine_workflow_color_and_msg: the list conclusions
job_conclusions(jobs) ==
  [i \in 1..Len(jobs) |->
     Lower(PyStr(Or(Get(jobs[i], "conclusion"), Str(S_empty))))]

\* determine_workflow_color_and_msg(completed_jobs)
determine_skipped_fails(jobs) ==
  LET conclusions == job_conclusions(jobs)
  IN  IF jobs = << >> THEN [color |-> "warning", msg |-> "Unknown:"]
      ELSE IF \A i \in 1..Len(jobs) : conclusions[i] = S_success
      THEN [color |-> "good", msg |-> "Success:"]
      ELSE IF \E i \in 1..Len(jobs) : conclusions[i] = S_cancelled
      THEN [color |-> "warning", msg |-> "Cancelled:"]
      ELSE [color |-> "danger", msg |-> "Failed:"]

determine_any_failure_wins(jobs) ==
  LET conclusions == job_conclusions(jobs)
      has(S) == \E i \in 1..Len(jobs) : conclusions[i] \in S
  IN  IF has({S_failure, S_timed_out}) THEN [color |-> "danger", msg |-> "Failed:"]
      ELSE IF has({S_success}) /\ \E i \in 1..Len(jobs) : conclusions[i] # S_success
      THEN [color |-> "warning", msg |-> "Mixed:"]
      ELSE IF has({S_success}) THEN [color |-> "good", msg |-> "Success:"]
      ELSE [color |-> "warning", msg |-> "Unknown:"]

determine_workflow_color_and_msg(jobs) ==
  LET conclusions == job_conclusions(jobs)
  IN  IF jobs = << >> THEN [color |-> "warning", msg |-> "Unknown:"]
      ELSE IF \A i \in 1..Len(jobs) : conclusions[i] \in {S_success, S_skipped}
      THEN [color |-> "good", msg |-> "Success:"]
      ELSE IF \E i \in 1..Len(jobs) : conclusions[i] = S_cancelled
      THEN [color |-> "warning", msg |-> "Cancelled:"]
      ELSE [color |-> "danger", msg |-> "Failed:"]

\* send-to-slack.py: normalise_job_name(raw)
slack_normalise_job_name(raw) ==
  Strip(IF Contains(raw, "/") THEN AfterLast(raw, "/") ELSE raw)

\* main(): results_setting
results_setting_of(raw) == Lower(Strip(raw))

\* main(): allowed
allowed_results(setting) ==
  LET parts == Split(setting, ",")
  IN  {Strip(parts[i]) : i \in {j \in 1..Len(parts) : Strip(parts[j]) # << >>}}

\* main(): the test that ends the run without a notification
skip_notification_never(setting, conclusion) == FALSE

skip_notification(setting, conclusion) ==
  /\ setting # S_all
  /\ allowed_results(setting) # {}
  /\ conclusion \notin allowed_results(setting)

\* send-to-slack.py: parse_ignored_jobs(raw)
slack_parse_ignored_jobs(raw) ==
  LET parts == Split(raw, ",")
  IN  { casefold(slack_normalise_job_name(parts[i])) :
          i \in {j \in 1..Len(parts) : slack_normalise_job_name(parts[j]) # << >>} }

\* main(): ignored_job_names stays None (modelled by the empty set, which
\* build_job_fields treats alike) unless the raw setting has a non-blank
\* character
slack_ignored_from_env(raw) ==
  IF Strip(raw) # << >> THEN slack_parse_ignored_jobs(raw) ELSE {}

\* _should_include_jobs(include_jobs_mode, workflow_conclusion)
should_include_jobs(include_jobs_mode, conclusion) ==
  LET mode == Lower(Strip(IF include_jobs_mode # << >> THEN include_jobs_mode
                          ELSE M_true))
  IN  /\ mode # M_false
      /\ ~(mode = M_on_failure /\ conclusion = S_success)

\* _job_status_icon(conclusion)
job_status_icon(conclusion) ==
  IF Lower(conclusion) = S_success THEN "tick"
  ELSE IF Lower(conclusion) \in {S_cancelled, S_skipped} THEN "barred"
  ELSE "cross"

\* the return value None
None == [t |-> "None"]

\* _build_single_job_field(job), the value as the parts of
\* f"{icon} <{html_url}|{name}>" (the jobs of the model carry no started_at
\* and no completed_at, so parse_iso8601 gives None and the value has no
\* duration)
build_single_job_field(job) ==
  LET conclusion == Lower(PyStr(Or(Get(job, "conclusion"), Str(S_empty))))
      raw_name   == PyStr(Or(Get(job, "name"), Str(S_empty)))
      name       == slack_normalise_job_name(raw_name)
      html_url   == Strip(PyStr(Or(Get(job, "html_url"), Str(S_empty))))
  IN  IF name = << >> \/ html_url = << >> THEN None
      ELSE [t |-> "field", title |-> << >>, short |-> TRUE,
            value |-> [icon |-> job_status_icon(conclusion),
                       html_url |-> html_url, name |-> name]]

\* build_job_fields: the pairs of the loop over completed_jobs
name_field_pairs_keep_unnamed(jobs, ignored_normalised) ==
  LET name_of(job) ==
        slack_normalise_job_name(PyStr(Or(Get(job, "name"), Str(S_empty))))
      url_of(job) == Strip(PyStr(Or(Get(job, "html_url"), Str(S_empty))))
      kept == SelectSeq(jobs,
                LAMBDA job :
                  /\ url_of(job) # << >>
                  /\ ~(ignored_normalised # {}
                         /\ casefold(name_of(job)) \in ignored_normalised))
  IN  [i \in 1..Len(kept) |->
         << name_of(kept[i]),
            [t |-> "field", title |-> << >>, short |-> TRUE,
             value |-> [icon |-> job_status_icon(
                          Lower(PyStr(Or(Get(kept[i], "conclusion"), Str(S_empty))))),
                        html_url |-> url_of(kept[i]), name |-> name_of(kept[i])]] >>]

name_field_pairs(jobs, ignored_normalised) ==
  LET pair(job) ==
        << slack_normalise_job_name(PyStr(Or(Get(job, "name"), Str(S_empty)))),
           build_single_job_field(job) >>
      kept == SelectSeq(jobs,
                LAMBDA job :
                  /\ build_single_job_field(job) # None
                  /\ pair(job)[1] # << >>
                  /\ ~(ignored_normalised # {}
                         /\ casefold(pair(job)[1]) \in ignored_normalised))
  IN  [i \in 1..Len(kept) |-> pair(kept[i])]

\* name_field_pairs.sort(key=lambda pair: pair[0].casefold()), a stable sort
RECURSIVE sorted_by_name(_)
sorted_by_name(pairs) ==
  IF pairs = << >> THEN << >>
  ELSE LET done == sorted_by_name(SubSeq(pairs, 1, Len(pairs) - 1))
           x    == pairs[Len(pairs)]
           k    == Cardinality({i \in 1..Len(done) :
                                  ~StrLess(casefold(x[1]), casefold(done[i][1]))})
       IN  SubSeq(done, 1, k) \o << x >> \o SubSeq(done, k + 1, Len(done))

\* build_job_fields(completed_jobs, include_jobs_mode, workflow_conclusion,
\* ignored_job_names)
build_job_fields(jobs, include_jobs_mode, conclusion, ignored_job_names) ==
  IF ~should_include_jobs(include_jobs_mode, conclusion) THEN << >>
  ELSE LET ignored_normalised ==
             IF ignored_job_names # {}
             THEN {casefold(n) : n \in ignored_job_names} ELSE {}
           pairs == sorted_by_name(name_field_pairs(jobs, ignored_normalised))
       IN  [i \in 1..Len(pairs) |-> pairs[i][2]]

\* build_slack_payload: the attachment's colour, the lead word of its text
\* and its fields
build_slack_payload_neutral_unknown(run, jobs, include_jobs_mode, ignored_job_names) ==
  LET cm == determine_workflow_color_and_msg(jobs)
  IN  [built  |-> TRUE,
       color  |-> IF cm.msg = "Unknown:" THEN "#808080" ELSE cm.color,
       lead   |-> cm.msg,
       fields |-> build_job_fields(jobs, include_jobs_mode,
                                   get_workflow_conclusion(run), ignored_job_names)]

build_slack_payload_verdict_of_shown(run, jobs, include_jobs_mode, ignored_job_names) ==
  LET shown == SelectSeq(jobs,
                 LAMBDA job :
                   casefold(slack_normalise_job_name(
                     PyStr(Or(Get(job, "name"), Str(S_empty))))) \notin ignored_job_names)
      cm == determine_workflow_color_and_msg(shown)
  IN  [built  |-> TRUE,
       color  |-> cm.color,
       lead   |-> cm.msg,
       fields |-> build_job_fields(jobs, include_jobs_mode,
                                   get_workflow_conclusion(run), ignored_job_names)]

build_slack_payload(run, jobs, include_jobs_mode, ignored_job_names) ==
  LET cm == determine_workflow_color_and_msg(jobs)
  IN  [built  |-> TRUE,
       color  |-> cm.color,
       lead   |-> cm.msg,
       fields |-> build_job_fields(jobs, include_jobs_mode,
                                   get_workflow_conclusion(run), ignored_job_names)]

\* ------------------------------------------------------------------------
\* send-to-slack.py: main()
\* ------------------------------------------------------------------------

\* main(): the configuration read from the environment
SL_Config ==
  /\ script = "send-to-slack" /\ pc = "main"
  /\ \E env \in {"no_webhook", "no_repo_or_run_id", "no_token", "ok",
                 "jobs_to_fetch_not_int"} :
       CASE env = "no_webhook" ->
              Fatal(<< >>, "SLACK_WEBHOOK_URL environment variable is required.")
         [] env = "no_repo_or_run_id" ->
              Fatal(<< >>, "GITHUB_REPOSITORY or GITHUB_RUN_ID not set; cannot call GitHub API.")
         [] env = "no_token" ->
              Fatal(<< >>, "GITHUB_TOKEN (or ACTIONS_RUNTIME_TOKEN) is not set; cannot call GitHub API.")
         [] env = "jobs_to_fetch_not_int" ->
              /\ stderr' = Append(stderr, print_line(
                   "Warning: SEND_TO_SLACK_JOBS_TO_FETCH={raw} is not an integer; defaulting to 30."))
              /\ pc' = "fetch_run"
              /\ UNCHANGED exitCode
         [] OTHER ->
              /\ pc' = "fetch_run"
              /\ UNCHANGED << stderr, exitCode >>
  /\ UNCHANGED << script, nargs, net >>
  /\ UNCHANGED cjVars
  /\ UNCHANGED slVars
  /\ UNCHANGED fnVars

\* fetch_run_and_jobs: run = fetch_json(base, ...)
SL_FetchRun ==
  /\ script = "send-to-slack" /\ pc = "fetch_run"
  /\ net' = Append(net, "run")
  /\ \E r \in Responses(SlackRunDocs) :
       IF fetch_json_ok(r)
       THEN /\ workflow_run' = r.json
            /\ pc' = "fetch_jobs"
            /\ UNCHANGED << stderr, exitCode >>
       ELSE /\ Fatal(fetch_json_failure(r).before, fetch_json_failure(r).message)
            /\ UNCHANGED workflow_run
  /\ UNCHANGED << script, nargs, completed_jobs, workflow_conclusion,
                  results_setting, payload >>
  /\ UNCHANGED cjVars
  /\ UNCHANGED fnVars

\* fetch_run_and_jobs: jobs_data = fetch_json(...), completed_jobs; then
\* main(): workflow_conclusion
SL_FetchJobs ==
  /\ script = "send-to-slack" /\ pc = "fetch_jobs"
  /\ net' = Append(net, "jobs")
  /\ \E r \in Responses(SlackJobsDocs) :
       IF fetch_json_ok(r)
       THEN /\ completed_jobs' = completed_jobs_of(r.json)
            /\ stderr' = IF completed_jobs_of(r.json) = << >>
                         THEN Append(stderr, print_line(
                                "Warning: No completed jobs found for this workflow run. Slack notification will contain no job fields."))
                         ELSE stderr
            /\ workflow_conclusion' = get_workflow_conclusion(workflow_run)
            /\ pc' = "gate"
            /\ UNCHANGED exitCode
       ELSE /\ Fatal(fetch_json_failure(r).before, fetch_json_failure(r).message)
            /\ UNCHANGED << completed_jobs, workflow_conclusion >>
  /\ UNCHANGED << script, nargs, workflow_run, results_setting, payload >>
  /\ UNCHANGED cjVars
  /\ UNCHANGED fnVars

\* main(): SEND_TO_SLACK_RESULTS, then SEND_TO_SLACK_INCLUDE_JOBS,
\* SEND_TO_SLACK_IGNORE_JOBS and build_slack_payload
SL_Gate ==
  /\ script = "send-to-slack" /\ pc = "gate"
  /\ \E raw \in ResultsRaws :
       /\ results_setting' = results_setting_of(raw)
       /\ IF skip_notification(results_setting_of(raw), workflow_conclusion)
          THEN /\ stderr' = Append(stderr, print_line(
                    "Workflow conclusion '{workflow_conclusion}' not in SEND_TO_SLACK_RESULTS={results_setting}; skipping Slack notification."))
               /\ Finish
               /\ UNCHANGED payload
          ELSE /\ \E include_jobs_mode \in IncludeModes,
                     raw_ignored_jobs \in SlackIgnoreRaws :
                    payload' = build_slack_payload(workflow_run, completed_jobs,
                                 include_jobs_mode,
                                 slack_ignored_from_env(raw_ignored_jobs))
               /\ pc' = "post"
               /\ UNCHANGED << stderr, exitCode >>
  /\ UNCHANGED << script, nargs, net, workflow_run, completed_jobs,
                  workflow_conclusion >>
  /\ UNCHANGED cjVars
  /\ UNCHANGED fnVars

\* post_to_slack(webhook_url, payload)
SL_Post ==
  /\ script = "send-to-slack" /\ pc = "post"
  /\ net' = Append(net, "slack")
  /\ \E r \in {[kind |-> "HTTPError", body |-> b] : b \in {"", "invalid_payload"}}
                \cup {[kind |-> "URLError"], [kind |-> "Exception"]}
                \cup {[kind |-> "status", status |-> c] : c \in {200, 204}} :
       CASE r.kind = "HTTPError" ->
              Fatal(IF r.body # "" THEN << print_line(r.body) >> ELSE << >>,
                    "Slack webhook returned HTTP {exc.code}: {exc.reason}")
         [] r.kind = "URLError" ->
              Fatal(<< >>, "Failed to reach Slack webhook: {exc.reason}")
         [] r.kind = "Exception" ->
              Fatal(<< >>, "Unexpected error when calling Slack webhook: {exc}")
         [] r.kind = "status" /\ ~(200 <= r.status /\ r.status < 300) ->
              Fatal(<< >>, "Slack webhook returned HTTP {status}")
         [] OTHER ->
              /\ Finish
              /\ UNCHANGED stderr
  /\ UNCHANGED << script, nargs >>
  /\ UNCHANGED cjVars
  /\ UNCHANGED slVars
  /\ UNCHANGED fnVars

\* ------------------------------------------------------------------------
\* Specifications
\* ------------------------------------------------------------------------

Next ==
  \/ CJ_LoadFile
  \/ CJ_GetContext
  \/ CJ_FetchJobs
  \/ CJ_CommitMessage
  \/ CJ_Bucket
  \/ CJ_WriteStepSummary
  \/ SL_Config
  \/ SL_FetchRun
  \/ SL_FetchJobs
  \/ SL_Gate
  \/ SL_Post

\* one invocation of either script, from process start
Spec == Init /\ [][Next]_vars

\* bucket_jobs on every document of Docs: check-jobs.py in file mode, right
\* after load_jobs_json_from_file returned the document
BucketInit ==
  /\ script = "check-jobs"
  /\ nargs = 1
  /\ pc = "bucket"
  /\ exitCode = -1
  /\ stderr = << >>
  /\ net = << >>
  /\ fileReads = 1
  /\ data \in Docs
  /\ commit_message = << >>
  /\ ignoreRaw = << >>
  /\ job_records = << >>
  /\ buckets = EmptyBuckets
  /\ summary = 0
  /\ summary_path = NoData
  /\ workflow_run = NoData
  /\ completed_jobs = << >>
  /\ workflow_conclusion = << >>
  /\ results_setting = << >>
  /\ payload = NoPayload
  /\ arg = << >>
  /\ ret = << >>

BucketNext == CJ_Bucket

BucketSpec == BucketInit /\ [][BucketNext]_vars

\* ------------------------------------------------------------------------
\* Functions called on their own
\* ------------------------------------------------------------------------

\* longest raw job name given to normalise_job_name
MaxLen == 4

\* raw job names: every string over a lower-case letter, an upper-case
\* letter, the slash and a blank
NameChars == {"a", "B", "/", " "}

RawNames == SeqsUpTo(NameChars, MaxLen)

\* the process state around a function that is called on its own
FnInit(f) ==
  /\ pc = f
  /\ nargs = 0
  /\ exitCode = -1
  /\ stderr = << >>
  /\ net = << >>
  /\ fileReads = 0
  /\ data = NoData
  /\ commit_message = << >>
  /\ ignoreRaw = << >>
  /\ job_records = << >>
  /\ buckets = EmptyBuckets
  /\ summary = 0
  /\ summary_path = NoData
  /\ workflow_run = NoData
  /\ completed_jobs = << >>
  /\ workflow_conclusion = << >>
  /\ results_setting = << >>
  /\ payload = NoPayload
  /\ ret = << >>

FnUnchanged ==
  /\ UNCHANGED << script, nargs, pc, exitCode, stderr, net, arg >>
  /\ UNCHANGED cjVars
  /\ UNCHANGED slVars

\* normalise_job_name of either script on every raw name, and then on what
\* it returned
NormInit ==
  /\ FnInit("normalise_job_name")
  /\ script \in {"check-jobs", "send-to-slack"}
  /\ arg \in RawNames

CallNormalise ==
  /\ pc = "normalise_job_name"
  /\ Len(ret) < 2
  /\ LET raw == IF ret = << >> THEN arg ELSE ret[Len(ret)]
     IN  ret' = Append(ret, IF script = "check-jobs"
                            THEN normalise_job_name(raw)
                            ELSE slack_normalise_job_name(raw))
  /\ FnUnchanged

NormNext == CallNormalise

NormSpec == NormInit /\ [][NormNext]_vars

\* sorted(xs, key=str.casefold), a stable sort: every element goes behind
\* the elements before it whose key is not greater
RECURSIVE sorted_casefold(_)
sorted_casefold(xs) ==
  IF xs = << >> THEN << >>
  ELSE LET done == sorted_casefold(SubSeq(xs, 1, Len(xs) - 1))
           x    == xs[Len(xs)]
           k    == Cardinality({i \in 1..Len(done) :
                                  ~StrLess(casefold(x), casefold(done[i]))})
       IN  SubSeq(done, 1, k) \o << x >> \o SubSeq(done, k + 1, Len(done))

\* the orders in which set(lines) can be iterated: the order of a set of
\* strings follows their hashes, which differ from process to process
set_orders(lines) ==
  LET T == Range(lines)
  IN  {q \in [1..Cardinality(T) -> T] : \A t \in T : \E i \in 1..Cardinality(T) : q[i] = t}

\* the lines print(..., file=out) writes
out_line(prefix, text) == [prefix |-> prefix, text |-> text]

\* print_sorted_section(lines, title, out): the lines written to out when
\* set(lines) is iterated in the given order
print_section_of_list(lines, title, order) ==
  IF lines = << >> THEN << >>
  ELSE << out_line("### ", title) >>
         \o [i \in 1..Len(SelectSeq(sorted_casefold(lines), LAMBDA name : name # << >>)) |->
               out_line("- ", SelectSeq(sorted_casefold(lines), LAMBDA name : name # << >>)[i])]
         \o << out_line("", << >>) >>

print_sorted_section(lines, title, order) ==
  IF lines = << >> THEN << >>
  ELSE << out_line("### ", title) >>
         \o [i \in 1..Len(SelectSeq(sorted_casefold(order), LAMBDA name : name # << >>)) |->
               out_line("- ", SelectSeq(sorted_casefold(order), LAMBDA name : name # << >>)[i])]
         \o << out_line("", << >>) >>

\* most entries of a bucket given to print_sorted_section
MaxLines == 3

\* entries of a bucket: normalised names, and a label of the other bucket
E_Deploy == << "D","e","p","l","o","y" >>
E_deploy == << "d","e","p","l","o","y" >>
E_Build  == << "B" >>
E_label  == << "a", ":", "Z" >>

SectionEntries == {E_Deploy, E_deploy, E_Build, E_label}

T_Successful_jobs == << "S","u","c","c","e","s","s","f","u","l"," ","j","o","b","s" >>

\* print_sorted_section on every bucket of up to MaxLines entries, in two
\* processes that were given the same bucket
SectionInit ==
  /\ FnInit("print_sorted_section")
  /\ script = "check-jobs"
  /\ arg \in SeqsUpTo(SectionEntries, MaxLines)

CallPrintSortedSection ==
  /\ pc = "print_sorted_section"
  /\ Len(ret) < 2
  /\ \E order \in set_orders(arg) :
       ret' = Append(ret, print_sorted_section(arg, T_Successful_jobs, order))
  /\ FnUnchanged

SectionNext == CallPrintSortedSection

SectionSpec == SectionInit /\ [][SectionNext]_vars

\* ------------------------------------------------------------------------
\* Vocabulary of the properties
\* ------------------------------------------------------------------------

S_Status == << "S","t","a","t","u","s" >>

BucketFields == {"success", "failure", "cancelled", "skipped", "timed_out", "other"}

\* bucket_jobs returned its six lists
Bucketed == script = "check-jobs" /\ pc = "summary"

\* the normalised name, the effective result and the bucket entry of the
\* i-th job record
NameOf(i) == normalise_job_name(job_records[i][1])

ResultOf(i) == IF job_records[i][2] = << >> THEN S_unknown ELSE job_records[i][2]

EntryOf(i) ==
  IF ResultOf(i) \in NamedBuckets THEN NameOf(i)
  ELSE NameOf(i) \o << ":" >> \o ResultOf(i)

FieldOf(i) == bucket_field(ResultOf(i))

\* the ignore set bucket_jobs was given
IgnoreSet == ignored_normalised_of(ignored_from_env(ignoreRaw))

\* the records with a non-empty normalised name that is not in the ignore set
Surviving ==
  {i \in 1..Len(job_records) :
     NameOf(i) # << >> /\ casefold(NameOf(i)) \notin IgnoreSet}

\* the i-th record matches an entry of the comma-separated ignore list
MatchesIgnoreEntry(i) ==
  \E e \in Range(Split(ignoreRaw, ",")) :
    casefold(normalise_job_name(e)) = casefold(NameOf(i))

TotalEntries ==
  Len(buckets.success) + Len(buckets.failure) + Len(buckets.cancelled)
    + Len(buckets.skipped) + Len(buckets.timed_out) + Len(buckets.other)

\* ------------------------------------------------------------------------
\* C1: every surviving job record (normalised name non-empty and not in the
\* ignore set) adds exactly one entry to exactly one of the six buckets: the
\* number of bucket entries is the number of surviving records, and each
\* surviving record's entry is in the bucket of its result.
\* ------------------------------------------------------------------------
C1_EverySurvivorInOneBucket ==
  Bucketed =>
    /\ TotalEntries = Cardinality(Surviving)
    /\ \A i \in Surviving : EntryOf(i) \in Range(buckets[FieldOf(i)])

C1_Witness ==
  /\ Bucketed
  /\ Len(job_records) = 2
  /\ Cardinality(Surviving) = 2
  /\ buckets.other # << >>
  /\ buckets.failure # << >>

\* ------------------------------------------------------------------------
\* C2: a surviving job whose raw result is a non-empty string outside the
\* five known ones is in the other bucket, and only there, as the label
\* "{normalised_name}:{raw_result}"; the entries of the five named buckets
\* are the bare normalised names of the surviving jobs with that result.
\* ------------------------------------------------------------------------
C2_UnknownResultsLabelledInOther ==
  Bucketed =>
    /\ \A i \in Surviving :
         job_records[i][2] # << >> /\ job_records[i][2] \notin NamedBuckets =>
           LET label == NameOf(i) \o << ":" >> \o job_records[i][2]
           IN  /\ label \in Range(buckets.other)
               /\ \A k \in BucketFields \ {"other"} : label \notin Range(buckets[k])
    /\ \A k \in BucketFields \ {"other"} :
         \A e \in Range(buckets[k]) :
           \E i \in Surviving : e = NameOf(i) /\ bucket_field(job_records[i][2]) = k

C2_Witness ==
  /\ Bucketed
  /\ \E i \in Surviving : job_records[i][2] = R_neutral
  /\ \E i \in Surviving : job_records[i][2] = R_Success
  /\ Len(buckets.other) = 2

\* ------------------------------------------------------------------------
\* C3: a top-level object whose "jobs" key holds a list is parsed as Shape A:
\* every job record comes from an element of that list, in order, and no
\* other top-level key contributes a record.
\* ------------------------------------------------------------------------
HasJobsList == data # NoData /\ TopGet(data, S_jobs).t = "list"

JobsList == TopGet(data, S_jobs).xs

\* record i is what list element j gives
RecordFromElement(i, j) ==
  /\ IsDict(JobsList[j])
  /\ job_records[i][1] =
       (IF "name" \in DOMAIN JobsList[j].f
        THEN PyStr(JobsList[j].f.name) ELSE << >>)

C3_JobsListIsShapeA ==
  (script = "check-jobs" /\ pc # "bucket" /\ HasJobsList) =>
    /\ Len(job_records) <= Len(JobsList)
    /\ \A i \in 1..Len(job_records) : \E j \in 1..Len(JobsList) : RecordFromElement(i, j)
    /\ \A i \in 1..Len(job_records) :
         \A k \in 1..Len(data.items) :
           data.items[k][1] # S_jobs => job_records[i][1] # data.items[k][1]

C3_Witness ==
  /\ Bucketed
  /\ HasJobsList
  /\ Len(data.items) = 2
  /\ Len(job_records) = 1
  /\ TotalEntries = 1

\* ------------------------------------------------------------------------
\* C4 as claimed: with the default configuration no job whose normalised
\* name ends with "Status" is in any bucket.
\* ------------------------------------------------------------------------
C4_StatusJobsSuppressed ==
  Bucketed =>
    \A i \in 1..Len(job_records) :
      EndsWith(NameOf(i), S_Status) =>
        \A k \in BucketFields : EntryOf(i) \notin Range(buckets[k])

\* C4 as amended: bucket_jobs has no umbrella suppression and no flag for
\* it; a job whose normalised name ends with "Status" is bucketed like any
\* other job, and is left out only when the ignore list names it.
C4_StatusJobsBucketed ==
  Bucketed =>
    \A i \in 1..Len(job_records) :
      EndsWith(NameOf(i), S_Status) =>
        (EntryOf(i) \in Range(buckets[FieldOf(i)])
           <=> casefold(NameOf(i)) \notin IgnoreSet)

C4_Witness ==
  /\ Bucketed
  /\ ignoreRaw = << >>
  /\ \E i \in 1..Len(job_records) : job_records[i][1] = N_CI_Status
  /\ << "C","I"," ","S","t","a","t","u","s" >> \in Range(buckets.success)

\* ------------------------------------------------------------------------
\* C8: a job is in none of the six buckets whenever its case-folded
\* normalised name equals the case-folded normalised form of an entry of the
\* ignore list; the jobs that match no entry are bucketed as if there were
\* no ignore list.
\* ------------------------------------------------------------------------
NotIgnored(rec) ==
  ~\E e \in Range(Split(ignoreRaw, ",")) :
     casefold(normalise_job_name(e)) = casefold(normalise_job_name(rec[1]))

C8_IgnoreListCaseInsensitive ==
  Bucketed =>
    /\ \A i \in 1..Len(job_records) :
         MatchesIgnoreEntry(i) =>
           \A k \in BucketFields : EntryOf(i) \notin Range(buckets[k])
    /\ buckets = bucket_records(EmptyBuckets, SelectSeq(job_records, NotIgnored), {})

C8_Witness ==
  /\ Bucketed
  /\ ignoreRaw = << "b","u","i","l","d" >>
  /\ \E i \in 1..Len(job_records) :
       job_records[i][1] = N_org_Build /\ MatchesIgnoreEntry(i)
  /\ \E i \in 1..Len(job_records) : ~MatchesIgnoreEntry(i)
  /\ TotalEntries = 1

\* ------------------------------------------------------------------------
\* Vocabulary of the notifier's properties
\* ------------------------------------------------------------------------

\* a request to the Slack webhook was made
Posted == "slack" \in Range(net)

\* the gate ended the run with its "skipping Slack notification" notice
Skipped ==
  \E i \in 1..Len(stderr) :
    stderr[i].text = "Workflow conclusion '{workflow_conclusion}' not in SEND_TO_SLACK_RESULTS={results_setting}; skipping Slack notification."

\* the headline of the payload
Headline(color, lead) == payload.color = color /\ payload.lead = lead

\* the raw conclusion of a completed job, "" when it is missing or null
RawConclusion(job) ==
  IF "conclusion" \in DOMAIN job.f /\ job.f.conclusion.t = "str"
  THEN job.f.conclusion.s
  ELSE << >>

\* ------------------------------------------------------------------------
\* C5: the verdict the notification gate compares with the allow-list is the
\* verdict that selects the headline: a run gated as success is rendered
\* good/"Success:", one gated as cancelled warning/"Cancelled:", one gated
\* as failure danger/"Failed:" (stated for the runs with a completed job,
\* where the headline is one of the three).
\* ------------------------------------------------------------------------
C5_GateVerdictIsHeadline ==
  (payload.built /\ completed_jobs # << >>) =>
    /\ workflow_conclusion = S_success   => Headline("good", "Success:")
    /\ workflow_conclusion = S_cancelled => Headline("warning", "Cancelled:")
    /\ workflow_conclusion = S_failure   => Headline("danger", "Failed:")

\* ------------------------------------------------------------------------
\* C6 as claimed: for a non-empty list of completed jobs the headline is
\* Success when every job's raw result is success or skipped, otherwise
\* Cancelled when some job's raw result is cancelled, otherwise Failure.
\* ------------------------------------------------------------------------
C6_VerdictFromRawResults ==
  (payload.built /\ completed_jobs # << >>) =>
    IF \A i \in 1..Len(completed_jobs) :
         RawConclusion(completed_jobs[i]) \in {S_success, S_skipped}
    THEN Headline("good", "Success:")
    ELSE IF \E i \in 1..Len(completed_jobs) :
              RawConclusion(completed_jobs[i]) = S_cancelled
    THEN Headline("warning", "Cancelled:")
    ELSE Headline("danger", "Failed:")

\* C6 as amended: the same with every raw result lower-cased first (a
\* missing or null result counts as the empty string): Success when every
\* lower-cased result is success or skipped, otherwise Cancelled when some
\* lower-cased result is cancelled, otherwise Failure; never another verdict.
C6_VerdictFromLowerCasedResults ==
  (payload.built /\ completed_jobs # << >>) =>
    /\ payload.lead \in {"Success:", "Cancelled:", "Failed:"}
    /\ IF \A i \in 1..Len(completed_jobs) :
            Lower(RawConclusion(completed_jobs[i])) \in {S_success, S_skipped}
       THEN Headline("good", "Success:")
       ELSE IF \E i \in 1..Len(completed_jobs) :
                 Lower(RawConclusion(completed_jobs[i])) = S_cancelled
       THEN Headline("warning", "Cancelled:")
       ELSE Headline("danger", "Failed:")

C6_Witness ==
  /\ payload.built
  /\ Len(completed_jobs) = 2
  /\ RawConclusion(completed_jobs[1]) = S_failure
  /\ RawConclusion(completed_jobs[2]) = S_cancelled
  /\ Headline("warning", "Cancelled:")

\* ------------------------------------------------------------------------
\* C7 as claimed: for every allow-list other than "all", when the verdict is
\* not a member of the allow-list the notifier builds no payload and makes
\* no request to the webhook.
\* ------------------------------------------------------------------------
C7_NotAllowedNeverPosts ==
  (script = "send-to-slack" /\ pc \in {"post", "exit"}
     /\ results_setting # S_all
     /\ workflow_conclusion \notin allowed_results(results_setting)) =>
    /\ ~payload.built
    /\ ~Posted

\* C7 as amended: for every allow-list that is not "all" (trimmed and
\* lower-cased) and has at least one non-blank entry, when the verdict is
\* not one of its entries the notifier builds no payload and makes no
\* request to the webhook; with "all", and with an allow-list that has no
\* non-blank entry, the gate never ends the run.
C7_NotAllowedNeverPostsUnlessBlank ==
  /\ (script = "send-to-slack" /\ pc \in {"post", "exit"}
        /\ results_setting # S_all
        /\ allowed_results(results_setting) # {}
        /\ workflow_conclusion \notin allowed_results(results_setting)) =>
       /\ ~payload.built
       /\ ~Posted
  /\ Skipped =>
       /\ results_setting # S_all
       /\ allowed_results(results_setting) # {}
       /\ workflow_conclusion \notin allowed_results(results_setting)
  /\ Posted => payload.built

C7_Witness ==
  /\ script = "send-to-slack" /\ pc = "exit" /\ exitCode = 0
  /\ Skipped
  /\ results_setting = S_failure \o << ","," " >> \o S_cancelled
  /\ workflow_conclusion = S_success
  /\ ~payload.built
  /\ net = << "run", "jobs" >>

\* ------------------------------------------------------------------------
\* C9 as claimed: with more than one positional argument check-jobs ends
\* with a non-zero exit code, makes no network call and does not write the
\* step summary.
\* ------------------------------------------------------------------------
C9_ExtraArgumentsAreUsageError ==
  (script = "check-jobs" /\ nargs > 1) =>
    /\ net = << >>
    /\ summary = 0
    /\ pc = "exit" => exitCode # 0

\* C9 as amended: with more than one positional argument check-jobs runs in
\* API mode as with none: it never opens a file, the job document it buckets
\* comes from the GitHub jobs request, and there is no usage error.
C9_ExtraArgumentsRunApiMode ==
  (script = "check-jobs" /\ nargs > 1) =>
    /\ fileReads = 0
    /\ data # NoData => (net # << >> /\ net[1] = "jobs")
    /\ pc \in {"bucket", "summary"} => net = << "jobs", "run" >>
    /\ \A i \in 1..Len(stderr) :
         stderr[i].text \notin {"JSON file not found: {path}",
                                "JSON path is not a file: {path}",
                                "Failed to read JSON file {path}: {exc}"}

C9_Witness ==
  /\ script = "check-jobs" /\ nargs = 2
  /\ pc = "exit" /\ exitCode = 0
  /\ net = << "jobs", "run" >>
  /\ fileReads = 0
  /\ summary = 1

\* ------------------------------------------------------------------------
\* C10 as claimed: every fatal termination that error() reports writes
\* exactly one line to the error stream, the line begins with "ERROR: ", and
\* the exit code is 1.
\* ------------------------------------------------------------------------
ErrorLines == {i \in 1..Len(stderr) : stderr[i].prefix = "ERROR: "}

\* the process ended on an exception no handler caught
Crashed ==
  \E i \in 1..Len(stderr) : stderr[i].text = "Traceback (most recent call last):"

C10_ExactlyOneStderrLine ==
  (ErrorLines # {} \/ (exitCode > 0 /\ ~Crashed)) =>
    /\ Len(stderr) = 1
    /\ stderr[1].prefix = "ERROR: "
    /\ exitCode = 1

\* C10 as amended: every fatal termination that error() reports writes
\* exactly one line that begins with "ERROR: ", as the last line of the
\* error stream, and exits with code 1; lines without the prefix (the body
\* of an HTTP error response, a warning) may precede it.  The exit code is
\* never other than 0 or 1, and a run that exits with 0 wrote no such line.
C10_OneErrorLineLast ==
  /\ exitCode \in {-1, 0, 1}
  /\ (ErrorLines # {} \/ (exitCode > 0 /\ ~Crashed)) =>
       /\ ErrorLines = {Len(stderr)}
       /\ exitCode = 1
       /\ pc = "exit"

C10_Witness ==
  /\ exitCode = 1
  /\ Len(stderr) = 2
  /\ stderr[1] = print_line("{\"message\": \"Not Found\"}")
  /\ stderr[2].prefix = "ERROR: "
  /\ net = << "jobs" >>

\* ------------------------------------------------------------------------
\* C11: the commit-message lookup of check-jobs never fails the main flow:
\* whatever the run endpoint answers, the step that performs the lookup
\* leaves the process running, writes nothing to the error stream, keeps the
\* jobs document as it was and hands over to bucketing.
\* ------------------------------------------------------------------------
C11_CommitLookupNeverFails ==
  [][(script = "check-jobs" /\ pc = "commit_message") =>
       /\ pc' = "bucket"
       /\ exitCode' = -1
       /\ stderr' = stderr
       /\ data' = data]_vars

\* ------------------------------------------------------------------------
\* C12: no retries, fail-fast.  In one invocation every endpoint is
\* requested at most once and in the order of the code; a run that ended in
\* error() before its data was fetched made no later request and wrote no
\* step summary; and the notifier requests the Slack webhook only after the
\* run fetch and the jobs fetch each returned a JSON object, as its third
\* and last request.
\* ------------------------------------------------------------------------
NoRepeats(s) == \A i, j \in 1..Len(s) : i # j => s[i] # s[j]

C12_NoRetriesFailFast ==
  /\ NoRepeats(net)
  /\ exitCode # -1 => pc = "exit"
  /\ script = "check-jobs" =>
       /\ net \in {<< >>, << "jobs" >>, << "jobs", "run" >>}
       /\ data = NoData =>
            /\ "run" \notin Range(net)
            /\ job_records = << >>
            /\ summary = 0
       /\ ErrorLines # {} => summary = 0
       /\ summary <= 1
  /\ script = "send-to-slack" =>
       /\ net \in {<< >>, << "run" >>, << "run", "jobs" >>,
                   << "run", "jobs", "slack" >>}
       /\ workflow_run = NoData => net \in {<< >>, << "run" >>}
       /\ workflow_conclusion = << >> => "slack" \notin Range(net)
       /\ "slack" \in Range(net) =>
            /\ IsDict(workflow_run)
            /\ payload.built

\* the jobs fetch of the notifier failed after the run fetch succeeded: the
\* process ended there, with two requests made and no payload
C12_Witness ==
  /\ script = "send-to-slack"
  /\ net = << "run", "jobs" >>
  /\ IsDict(workflow_run)
  /\ exitCode = 1
  /\ ErrorLines # {}
  /\ ~payload.built

\* ------------------------------------------------------------------------
\* C13: bucket classification matches the five known result strings exactly
\* and case-sensitively.  The named buckets hold as many entries as there
\* are surviving records whose raw result is exactly one of the five, each
\* under the bucket of that result, and the other bucket holds as many as
\* there are surviving records with any other raw result; a surviving
\* record whose result differs from a known one only in letter case is
\* entered in other and adds nothing to the named buckets.
\* ------------------------------------------------------------------------
KnownSurvivors == {i \in Surviving : job_records[i][2] \in NamedBuckets}

NamedEntries ==
  Len(buckets.success) + Len(buckets.failure) + Len(buckets.cancelled)
    + Len(buckets.skipped) + Len(buckets.timed_out)

C13_KnownResultsMatchExactly ==
  Bucketed =>
    /\ NamedEntries = Cardinality(KnownSurvivors)
    /\ Len(buckets.other) = Cardinality(Surviving \ KnownSurvivors)
    /\ \A i \in KnownSurvivors :
         NameOf(i) \in Range(buckets[bucket_field(job_records[i][2])])
    /\ \A i \in Surviving \ KnownSurvivors :
         NameOf(i) \o << ":" >> \o ResultOf(i) \in Range(buckets.other)

\* a surviving job with the result "Success" is in other, and the success
\* bucket is empty
C13_Witness ==
  /\ Bucketed
  /\ \E i \in Surviving :
       /\ job_records[i][2] = R_Success
       /\ NameOf(i) \o << ":" >> \o R_Success \in Range(buckets.other)
  /\ buckets.success = << >>

\* ------------------------------------------------------------------------
\* C14: a job whose result field is empty or missing is classified as if
\* its raw result were "unknown".  In a jobs list that is a completed
\* element whose conclusion is absent, null or the empty string; in a needs
\* mapping it is a value that is no object, or an object whose result and
\* conclusion are each absent, null or the empty string.  Unless its name
\* normalises to nothing or is ignored, such a job gives the record
\* (name, "unknown") and the entry "{name}:unknown" of the other bucket,
\* and no entry of other ends with ":" or with ":None".
\* ------------------------------------------------------------------------
EmptyResult(v) == v \in {Absent, Null, Str(S_empty)}

Kept(raw_name) ==
  /\ normalise_job_name(raw_name) # << >>
  /\ casefold(normalise_job_name(raw_name)) \notin IgnoreSet

ClassifiedUnknown(raw_name) ==
  /\ << raw_name, S_unknown >> \in Range(job_records)
  /\ Kept(raw_name) =>
       normalise_job_name(raw_name) \o << ":" >> \o S_unknown \in Range(buckets.other)

C14_EmptyResultIsUnknown ==
  Bucketed =>
    /\ HasJobsList =>
         \A j \in 1..Len(JobsList) :
           LET job == JobsList[j]
           IN  (/\ IsDict(job)
                /\ Get(job, "status") = Str(S_completed)
                /\ Get(job, "name").t = "str"
                /\ EmptyResult(Get(job, "conclusion")))
                 => ClassifiedUnknown(Get(job, "name").s)
    /\ ~HasJobsList =>
         \A k \in 1..Len(data.items) :
           LET value == data.items[k][2]
           IN  (\/ ~IsDict(value)
                \/ /\ EmptyResult(Get(value, "result"))
                   /\ EmptyResult(Get(value, "conclusion")))
                 => ClassifiedUnknown(data.items[k][1])
    /\ \A e \in Range(buckets.other) :
         /\ ~EndsWith(e, << ":" >>)
         /\ ~EndsWith(e, << ":" >> \o S_None)

\* a completed element with a null conclusion, and one with an empty
\* string, are both entered in other as "Build:unknown"
C14_Witness ==
  /\ Bucketed
  /\ HasJobsList
  /\ Len(JobsList) = 2
  /\ IsDict(JobsList[1]) /\ IsDict(JobsList[2])
  /\ Get(JobsList[1], "conclusion") = Null
  /\ Get(JobsList[2], "conclusion") = Str(S_empty)
  /\ buckets.other = << << "B","u","i","l","d",":" >> \o S_unknown,
                        << "B","u","i","l","d",":" >> \o S_unknown >>

\* ------------------------------------------------------------------------
\* C15: name normalisation is idempotent: normalise_job_name applied to
\* what normalise_job_name returned gives that same string, for every raw
\* name and in either script.
\* ------------------------------------------------------------------------
C15_NormaliseIdempotent ==
  (pc = "normalise_job_name" /\ Len(ret) = 2) => ret[2] = ret[1]

\* the second call was made on a result that differs from the raw name
C15_Witness ==
  /\ pc = "normalise_job_name"
  /\ arg = << "a", "/", " ", "B" >>
  /\ ret = << << "B" >>, << "B" >> >>

\* ------------------------------------------------------------------------
\* C16: normalise_job_name returns, identically in both scripts, the part of
\* the raw name after its last "/" (the whole name when it has none) without
\* its leading and trailing whitespace: the result has no "/", neither
\* starts nor ends with whitespace, is a slice of the raw name that begins
\* after every "/", and everything after the last "/" that is outside the
\* slice is whitespace.  "A/B/C" gives "C", "  trailing  " gives "trailing"
\* and "x/" gives "".
\* ------------------------------------------------------------------------
SlashesOf(s) == {i \in 1..Len(s) : s[i] = "/"}

\* r is s[lo..hi] (empty when hi < lo), taken after the last slash of s and
\* leaving out only whitespace
TrimmedTail(s, r, lo, hi) ==
  /\ r = SubSeq(s, lo, hi)
  /\ \A i \in SlashesOf(s) : i < lo
  /\ \A i \in 1..Len(s) :
       ((\A k \in SlashesOf(s) : k < i) /\ (i < lo \/ i > hi)) => s[i] \in Whitespace

C16_NormaliseKeepsTrimmedTail ==
  (pc = "normalise_job_name" /\ Len(ret) >= 1) =>
    LET r == ret[1]
    IN  /\ ~Contains(r, "/")
        /\ r # << >> => (r[1] \notin Whitespace /\ r[Len(r)] \notin Whitespace)
        /\ \E lo \in 1..(Len(arg) + 1) : \E hi \in 0..Len(arg) :
             TrimmedTail(arg, r, lo, hi)
        /\ normalise_job_name(arg) = slack_normalise_job_name(arg)
        /\ normalise_job_name(<< "A","/","B","/","C" >>) = << "C" >>
        /\ normalise_job_name(<< " "," ","t","r","a","i","l","i","n","g"," "," " >>)
             = << "t","r","a","i","l","i","n","g" >>
        /\ normalise_job_name(<< "x","/" >>) = << >>

\* a name with two slashes and blanks around its last part
C16_Witness ==
  /\ pc = "normalise_job_name"
  /\ script = "send-to-slack"
  /\ arg = << "/", "/", " ", "a" >>
  /\ Len(ret) >= 1
  /\ ret[1] = << "a" >>

\* ------------------------------------------------------------------------
\* C17: within a rendered bucket section every distinct entry of the bucket
\* is listed exactly once, nothing else is listed, and the entries are in
\* non-decreasing order of their case-folded form.
\* ------------------------------------------------------------------------
Rendered == pc = "print_sorted_section" /\ ret # << >>

\* the entries listed by the latest rendering
Listed ==
  LET written == ret[Len(ret)]
      items   == SelectSeq(written, LAMBDA l : l.prefix = "- ")
  IN  [i \in 1..Len(items) |-> items[i].text]

C17_SectionDeduplicatedAndSorted ==
  Rendered =>
    /\ \A e \in Range(arg) : Cardinality({i \in 1..Len(Listed) : Listed[i] = e}) = 1
    /\ Range(Listed) \subseteq Range(arg)
    /\ \A i \in 1..(Len(Listed) - 1) :
         ~StrLess(casefold(Listed[i + 1]), casefold(Listed[i]))

\* a bucket that holds "Deploy" twice and a label that sorts before it
C17_Witness ==
  /\ Rendered
  /\ arg = << E_Deploy, E_label, E_Deploy >>
  /\ Listed = << E_label, E_Deploy >>

\* ------------------------------------------------------------------------
\* C18: rendering is deterministic: two invocations of print_sorted_section
\* on the same bucket contents write the same sequence of lines.
\* ------------------------------------------------------------------------
C18_RenderingDeterministic ==
  (pc = "print_sorted_section" /\ Len(ret) = 2) => ret[1] = ret[2]

\* ------------------------------------------------------------------------
\* C19 as claimed: for the completed jobs "org/Build" (success), "Test"
\* (failure) and "CI Status" (success), with no ignore list configured, the
\* buckets are Success = {"Build"}, Failure = {"Test"} and nothing else, the
\* "CI Status" job being suppressed, and the overall verdict is Failure.
\* ------------------------------------------------------------------------
E_BuildName == << "B","u","i","l","d" >>

ExampleBucketed == Bucketed /\ data = ExampleDoc /\ IgnoreSet = {}

\* the verdict the notifier computes for the completed jobs of the document
ExampleVerdict == determine_workflow_color_and_msg(completed_jobs_of(data))

OtherBucketsEmpty ==
  /\ buckets.cancelled = << >>
  /\ buckets.skipped = << >>
  /\ buckets.timed_out = << >>
  /\ buckets.other = << >>

C19_ExampleSuppressesStatusJob ==
  ExampleBucketed =>
    /\ Range(buckets.success) = {E_BuildName}
    /\ Range(buckets.failure) = {N_Test_plain}
    /\ OtherBucketsEmpty
    /\ ExampleVerdict = [color |-> "danger", msg |-> "Failed:"]

\* C19 as amended: for the same input, with no ignore list configured, the
\* buckets are Success = {"Build", "CI Status"}, Failure = {"Test"} and
\* nothing else (no job is suppressed for its "Status" suffix), each name
\* entered once, and the verdict the notifier computes for these jobs is
\* Failure.
C19_ExampleKeepsStatusJob ==
  ExampleBucketed =>
    /\ buckets.success = << E_BuildName, N_CI_Status >>
    /\ buckets.failure = << N_Test_plain >>
    /\ OtherBucketsEmpty
    /\ ExampleVerdict = [color |-> "danger", msg |-> "Failed:"]

C19_Witness ==
  /\ ExampleBucketed
  /\ Len(job_records) = 3
  /\ TotalEntries = 3

\* ------------------------------------------------------------------------
\* C20 as claimed: the verdict of the headline follows the
\* "any-failure-wins" policy over the buckets of the completed jobs: Failure
\* when the Failure or TimedOut bucket is non-empty; otherwise Mixed when
\* Success is non-empty and Cancelled, Skipped or Other is non-empty;
\* otherwise Success when only Success is non-empty; otherwise Unknown.
\* ------------------------------------------------------------------------
\* the bucket of a completed job by its raw conclusion, and by its
\* lower-cased conclusion
BucketOfJob(job) ==
  bucket_field(IF RawConclusion(job) = << >> THEN S_unknown ELSE RawConclusion(job))

LowerBucketOfJob(job) ==
  bucket_field(IF RawConclusion(job) = << >> THEN S_unknown
               ELSE Lower(RawConclusion(job)))

HasJobIn(K) ==
  \E i \in 1..Len(completed_jobs) : BucketOfJob(completed_jobs[i]) \in K

HasLowerJobIn(K) ==
  \E i \in 1..Len(completed_jobs) : LowerBucketOfJob(completed_jobs[i]) \in K

C20_AnyFailureWins ==
  payload.built =>
    payload.lead =
      (IF HasJobIn({"failure", "timed_out"}) THEN "Failed:"
       ELSE IF HasJobIn({"success"}) /\ HasJobIn({"cancelled", "skipped", "other"})
       THEN "Mixed:"
       ELSE IF HasJobIn({"success"}) THEN "Success:"
       ELSE "Unknown:")

\* C20 as amended: the notifier does not apply "any-failure-wins" and has no
\* Mixed verdict.  Over the buckets of the completed jobs' lower-cased
\* conclusions its verdict is Unknown when every bucket is empty; otherwise
\* Success when only Success and Skipped are non-empty; otherwise Cancelled
\* when Cancelled is non-empty; otherwise Failure.
C20_SuccessOrSkippedElseCancelledElseFailure ==
  payload.built =>
    /\ payload.lead # "Mixed:"
    /\ payload.lead =
         (IF completed_jobs = << >> THEN "Unknown:"
          ELSE IF ~HasLowerJobIn({"failure", "timed_out", "cancelled", "other"})
          THEN "Success:"
          ELSE IF HasLowerJobIn({"cancelled"}) THEN "Cancelled:"
          ELSE "Failed:")

\* Success = {A}, Cancelled = {B}: the verdict is Cancelled
C20_Witness ==
  /\ payload.built
  /\ Len(completed_jobs) = 2
  /\ RawConclusion(completed_jobs[1]) = S_success
  /\ RawConclusion(completed_jobs[2]) = S_cancelled
  /\ payload.lead = "Cancelled:"

\* ------------------------------------------------------------------------
\* C21 as claimed: the headline colour is a function of the verdict alone:
\* Success gives "good", Failure gives "danger", Cancelled gives "warning",
\* and Unknown (no completed jobs) gives a neutral colour distinct from the
\* warning colour of Cancelled.
\* ------------------------------------------------------------------------
C21_UnknownHasNeutralColour ==
  payload.built =>
    /\ payload.lead = "Success:" => payload.color = "good"
    /\ payload.lead = "Failed:" => payload.color = "danger"
    /\ payload.lead = "Cancelled:" => payload.color = "warning"
    /\ payload.lead = "Unknown:" => payload.color \notin {"good", "danger", "warning"}

\* C21 as amended: the headline colour is a function of the verdict alone:
\* Success gives "good", Failure gives "danger", Cancelled gives "warning",
\* and Unknown, the verdict of a run without completed jobs and of no other
\* run, gives "warning" as well, the colour of Cancelled.
C21_UnknownSharesWarningColour ==
  payload.built =>
    /\ payload.lead = "Success:" => payload.color = "good"
    /\ payload.lead = "Failed:" => payload.color = "danger"
    /\ payload.lead = "Cancelled:" => payload.color = "warning"
    /\ payload.lead = "Unknown:" => payload.color = "warning"
    /\ payload.lead = "Unknown:" <=> completed_jobs = << >>

C21_Witness ==
  /\ payload.built
  /\ completed_jobs = << >>
  /\ payload.lead = "Unknown:"
  /\ payload.color = "warning"
  /\ Posted

\* ------------------------------------------------------------------------
\* C22: with exactly one command-line argument check-jobs takes its job
\* JSON from that file and makes no network request at all; with no
\* argument it never opens a job file, and whenever it holds a jobs
\* document that document came from the jobs request, the first request
\* made.
\* ------------------------------------------------------------------------
C22_FileModeIsOffline ==
  script = "check-jobs" =>
    /\ nargs = 1 =>
         /\ net = << >>
         /\ data # NoData => fileReads = 1
         /\ pc \in {"summary", "exit"} /\ job_records # << >> => data # NoData
    /\ nargs = 0 =>
         /\ fileReads = 0
         /\ data # NoData => (net # << >> /\ net[1] = "jobs")

\* a run in file mode that bucketed its document and ended normally
C22_Witness ==
  /\ script = "check-jobs"
  /\ nargs = 1
  /\ exitCode = 0
  /\ fileReads = 1
  /\ net = << >>
  /\ TotalEntries > 0

\* ------------------------------------------------------------------------
\* C23: when the "jobs" key holds a list of which no element yields a record
\* (the list is empty, or each element is no object or is not completed),
\* bucket_jobs fails with the "Unsupported JSON structure" error and exit
\* code 1: there is no record, no bucket entry, and the other top-level keys
\* are not read as jobs.
\* ------------------------------------------------------------------------
\* a list element the summary pipeline takes a record from
YieldsRecord(job) ==
  /\ IsDict(job)
  /\ Get(job, "status").t = "str"
  /\ Lower(Get(job, "status").s) = S_completed

C23_EmptyShapeAIsAnError ==
  (/\ script = "check-jobs"
   /\ pc # "bucket"
   /\ HasJobsList
   /\ \A j \in 1..Len(JobsList) : ~YieldsRecord(JobsList[j])) =>
    /\ pc = "exit"
    /\ exitCode = 1
    /\ stderr = << error_line("Unsupported JSON structure for job results.") >>
    /\ job_records = << >>
    /\ buckets = EmptyBuckets

\* a document with a jobs list whose only element is still in progress, and
\* with another key that has the form of a needs entry
C23_Witness ==
  /\ script = "check-jobs"
  /\ pc = "exit"
  /\ HasJobsList
  /\ Len(data.items) = 2
  /\ Len(JobsList) = 1
  /\ IsDict(JobsList[1])
  /\ Get(JobsList[1], "status") = Str(ST_in_progress)
  /\ exitCode = 1

\* ------------------------------------------------------------------------
\* C24: in Shape B (no "jobs" list) every top-level key yields exactly one
\* record, in order, named by the key; its raw result is the value's
\* "result" when the value is an object with a non-empty "result",
\* otherwise the value's "conclusion" when that is non-empty, otherwise
\* "unknown"; a value that is no object yields "unknown".
\* ------------------------------------------------------------------------
NonEmptyString(v) == v.t = "str" /\ v.s # << >>

NeedsResult(value) ==
  IF IsDict(value) /\ NonEmptyString(Get(value, "result"))
  THEN Get(value, "result").s
  ELSE IF IsDict(value) /\ NonEmptyString(Get(value, "conclusion"))
  THEN Get(value, "conclusion").s
  ELSE S_unknown

C24_ShapeBOneRecordPerKey ==
  (script = "check-jobs" /\ pc # "bucket" /\ ~HasJobsList) =>
    /\ Len(job_records) = Len(data.items)
    /\ \A k \in 1..Len(data.items) :
         job_records[k] = << data.items[k][1], NeedsResult(data.items[k][2]) >>

\* a mapping whose first value holds both a result and a conclusion and
\* whose second value, under the key "jobs", is no object
C24_Witness ==
  /\ Bucketed
  /\ ~HasJobsList
  /\ Len(data.items) = 2
  /\ data.items[1][2] = Obj([result |-> Str(S_timed_out), conclusion |-> Str(S_success)])
  /\ data.items[2] = << S_jobs, Str(S_success) >>
  /\ job_records[1][2] = S_timed_out
  /\ job_records[2] = << S_jobs, S_unknown >>

\* ------------------------------------------------------------------------
\* C25: both pipelines include an element of the jobs list iff its "status"
\* is exactly the string "completed": the summary pipeline takes one record
\* from each such element and from no other, and the notifier keeps each
\* such element and no other, so both select the same elements.
\* ------------------------------------------------------------------------
ExactlyCompleted ==
  {j \in 1..Len(JobsList) :
     IsDict(JobsList[j]) /\ Get(JobsList[j], "status") = Str(S_completed)}

C25_SameCompletedFilter ==
  (script = "check-jobs" /\ pc # "bucket" /\ HasJobsList) =>
    /\ Len(job_records) = Cardinality(ExactlyCompleted)
    /\ Len(completed_jobs_of(data)) = Cardinality(ExactlyCompleted)

\* ------------------------------------------------------------------------
\* C26: in Shape A an element of the jobs list gives a bucket entry only if
\* its "name" is a string: the buckets never hold more entries than the list
\* has objects with a string name, so an element whose name is missing, null
\* or of another JSON type adds no entry to any bucket.
\* ------------------------------------------------------------------------
StringNamed ==
  {j \in 1..Len(JobsList) :
     IsDict(JobsList[j]) /\ Get(JobsList[j], "name").t = "str"}

C26_OnlyStringNamesAreBucketed ==
  (Bucketed /\ HasJobsList) => TotalEntries <= Cardinality(StringNamed)

\* ------------------------------------------------------------------------
\* bucket_jobs and build_slack_payload called on their own with a job list
\* ------------------------------------------------------------------------

\* completed jobs: names that normalise to build, Build and Test, names that
\* normalise to the empty string, a null name and a job without html_url
FieldJobElems ==
  {SlackJob(Str(S_completed), Str(N_build), Str(S_success), Str(U_job)),
   SlackJob(Str(S_completed), Str(N_org_Build), Str(S_failure), Str(U_job)),
   SlackJob(Str(S_completed), Str(N_Test), Str(S_failure), Str(U_job)),
   SlackJob(Str(S_completed), Str(N_x_slash), Str(S_failure), Str(U_job)),
   SlackJob(Str(S_completed), Str(<< " " >>), Str(S_success), Str(U_job)),
   SlackJob(Str(S_completed), Str(S_empty), Str(S_cancelled), Str(U_job)),
   SlackJob(Str(S_completed), Null, Str(S_success), Str(U_job)),
   SlackJob(Str(S_completed), Str(N_build), Str(S_failure), Absent)}

\* values of CHECK_JOBS_IGNORE_JOBS and of SEND_TO_SLACK_IGNORE_JOBS
FieldIgnoreRaws ==
  { << >>,
    N_build,
    << " ","o","/","T","E","S","T"," ",",","x","/" >> }

FieldRunDocs ==
  {RunObj(Str(S_success), Str(S_completed)), RunObj(Str(S_failure), Str(S_completed))}

JobListArgs ==
  [jobs : SeqsUpTo(FieldJobElems, MaxJobs),
   raw_ignored : FieldIgnoreRaws,
   include_jobs_mode : IncludeModes,
   run : FieldRunDocs]

\* the summary script is given the list and its ignore setting; the notifier
\* also the run and SEND_TO_SLACK_INCLUDE_JOBS
JobListInit ==
  /\ FnInit("job_list")
  /\ script \in {"check-jobs", "send-to-slack"}
  /\ arg \in JobListArgs
  /\ script = "check-jobs" =>
       /\ arg.include_jobs_mode = M_true
       /\ arg.run = RunObj(Str(S_success), Str(S_completed))

\* check-jobs.py: _extract_api_jobs and bucket_jobs on the list
CallBucketJobs ==
  /\ pc = "job_list" /\ script = "check-jobs"
  /\ ret = << >>
  /\ ret' = << bucket_records(EmptyBuckets,
                 job_records_of(Dict(<< << S_jobs, List(arg.jobs) >> >>)),
                 ignored_normalised_of(ignored_from_env(arg.raw_ignored))) >>
  /\ FnUnchanged

\* send-to-slack.py: build_slack_payload on the list with the ignore list of
\* the environment, and then with SEND_TO_SLACK_IGNORE_JOBS unset
CallBuildSlackPayload ==
  /\ pc = "job_list" /\ script = "send-to-slack"
  /\ Len(ret) < 2
  /\ ret' = Append(ret,
              build_slack_payload(arg.run, arg.jobs, arg.include_jobs_mode,
                IF ret = << >> THEN slack_ignored_from_env(arg.raw_ignored)
                ELSE {}))
  /\ FnUnchanged

JobListNext == CallBucketJobs \/ CallBuildSlackPayload

JobListSpec == JobListInit /\ [][JobListNext]_vars

\* the jobs of the list whose normalised name is empty, in either script
UnnamedJobs ==
  {j \in 1..Len(arg.jobs) :
     slack_normalise_job_name(PyStr(Or(Get(arg.jobs[j], "name"), Str(S_empty)))) = << >>}

BucketedList == script = "check-jobs" /\ pc = "job_list" /\ ret # << >>

PayloadBuilt(k) == script = "send-to-slack" /\ pc = "job_list" /\ Len(ret) >= k

EntriesOfList ==
  Len(ret[1].success) + Len(ret[1].failure) + Len(ret[1].cancelled)
    + Len(ret[1].skipped) + Len(ret[1].timed_out) + Len(ret[1].other)

\* ------------------------------------------------------------------------
\* C27: a record whose normalised name is the empty string (raw name empty,
\* only whitespace, or ending in "/") is dropped: no bucket of bucket_jobs
\* holds an empty name, no entry of the other bucket has an empty name
\* before its ":", and no field of the Slack payload is built for a job
\* whose normalised name is empty.
\* ------------------------------------------------------------------------
C27_EmptyNamesAreDropped ==
  /\ BucketedList =>
       /\ \A f \in {"success", "failure", "cancelled", "skipped", "timed_out"} :
            \A i \in 1..Len(ret[1][f]) : ret[1][f][i] # << >>
       /\ \A i \in 1..Len(ret[1].other) :
            ret[1].other[i] # << >> /\ ret[1].other[i][1] # ":"
  /\ \A k \in 1..2 :
       PayloadBuilt(k) =>
         /\ \A i \in 1..Len(ret[k].fields) : ret[k].fields[i].value.name # << >>
         /\ Len(ret[k].fields) <= Len(arg.jobs) - Cardinality(UnnamedJobs)

C27_Witness ==
  /\ PayloadBuilt(1)
  /\ Len(arg.jobs) = 2
  /\ arg.jobs[1] = SlackJob(Str(S_completed), Str(N_x_slash), Str(S_failure), Str(U_job))
  /\ Len(ret[1].fields) = 1
  /\ ret[1].fields[1].value.name = N_build

\* ------------------------------------------------------------------------
\* C28: the ignore list only removes per-job fields from the Slack payload:
\* for every list of completed jobs and every ignore set the colour and the
\* lead word of the headline are those of the payload built with an empty
\* ignore set, and every field of the payload is a field of that payload.
\* ------------------------------------------------------------------------
C28_IgnoreListLeavesHeadline ==
  PayloadBuilt(2) =>
    /\ ret[1].color = ret[2].color
    /\ ret[1].lead = ret[2].lead
    /\ Range(ret[1].fields) \subseteq Range(ret[2].fields)
    /\ Len(ret[1].fields) <= Len(ret[2].fields)

C28_Witness ==
  /\ PayloadBuilt(2)
  /\ Len(ret[2].fields) = 2
  /\ Len(ret[1].fields) = 1
  /\ ret[1].fields[1].value.icon = "tick"
  /\ ret[1].lead = "Failed:"
  /\ ret[1].color = "danger"

\* ------------------------------------------------------------------------
\* C29: the step-summary file is appended to at most once per invocation,
\* and only after the input was loaded and bucketed: a process that
\* appended holds a document and job records and reported no error.  When
\* GITHUB_STEP_SUMMARY is unset or empty, or when a load, decode or
\* structure error was reported, the file is left unchanged.
\* ------------------------------------------------------------------------
LoadErrorLines ==
  {i \in ErrorLines :
     stderr[i].text # "Failed to open GITHUB_STEP_SUMMARY file for writing: {exc}"}

C29_SummaryAppendedOnceAfterBucketing ==
  script = "check-jobs" =>
    /\ summary <= 1
    /\ summary = 1 =>
         /\ data # NoData
         /\ job_records # << >>
         /\ buckets = bucket_records(EmptyBuckets, job_records, IgnoreSet)
         /\ Truthy(summary_path)
         /\ pc = "exit" /\ exitCode = 0
    /\ (summary_path # NoData /\ ~Truthy(summary_path)) =>
         (summary = 0 /\ pc = "exit" /\ exitCode = 0)
    /\ LoadErrorLines # {} => (summary = 0 /\ summary_path = NoData)
    /\ Crashed => summary = 0

C29_Witness ==
  /\ script = "check-jobs" /\ pc = "exit" /\ exitCode = 0
  /\ summary = 1
  /\ summary_path = Str(P_summary)
  /\ Len(job_records) = 2
  /\ stderr = << >>

\* ------------------------------------------------------------------------
\* send-to-slack.py: compute_duration called on its own
\* ------------------------------------------------------------------------

\* a datetime is a number of ticks since an epoch; a second has
\* TicksPerSecond ticks, so that end - start can have a fraction of a second
TicksPerSecond == 2

\* most whole days between start and end
MaxDays == 2

\* str(n) for an int n >= 0
RECURSIVE str_int(_)
str_int(n) ==
  IF n < 10 THEN << Digits[n + 1] >>
  ELSE str_int(n \div 10) \o << Digits[(n % 10) + 1] >>

\* compute_duration: format_duration(value, text, hide_on_zero), the
\* fragment f"{value}{text} "
format_duration_hide_every_zero(value, text, hide_on_zero) ==
  IF value <= 0 THEN << >>
  ELSE str_int(value) \o << text, " " >>

format_duration(value, text, hide_on_zero) ==
  IF value <= 0 /\ hide_on_zero THEN << >>
  ELSE str_int(value) \o << text, " " >>

\* compute_duration(start, end)
compute_duration(start, end) ==
  LET delta0  == IF end - start < 0 THEN 0 ELSE (end - start) \div TicksPerSecond
      days    == delta0 \div 86400
      delta1  == delta0 - days * 86400
      hours   == (delta1 \div 3600) % 24
      delta2  == delta1 - hours * 3600
      minutes == (delta2 \div 60) % 60
      delta3  == delta2 - minutes * 60
      seconds == delta3 % 60
      result  == Strip(format_duration(days, "d", TRUE)
                         \o format_duration(hours, "h", TRUE)
                         \o format_duration(minutes, "m", TRUE)
                         \o format_duration(seconds, "s", FALSE))
  IN  IF result # << >> THEN result ELSE << "0", "s" >>

\* start times: the epoch and a second and a half after it
DurationStarts == {0, TicksPerSecond + 1}

\* end times: every combination of the least, the second and the greatest
\* value of each component, with and without a fraction of a second
DurationEnds ==
  {TicksPerSecond * (dd * 86400 + h * 3600 + m * 60 + s) + f :
     dd \in 0..MaxDays, h \in {0, 1, 23}, m \in {0, 1, 59}, s \in {0, 1, 59},
     f \in {0, 1}}

DurationInit ==
  /\ FnInit("compute_duration")
  /\ script = "send-to-slack"
  /\ arg \in [start : DurationStarts, end : DurationEnds]

CallComputeDuration ==
  /\ pc = "compute_duration"
  /\ ret = << >>
  /\ ret' = << compute_duration(arg.start, arg.end) >>
  /\ FnUnchanged

DurationNext == CallComputeDuration

DurationSpec == DurationInit /\ [][DurationNext]_vars

\* the whole seconds from start to end, zero when end precedes start
WholeSeconds ==
  IF arg.end < arg.start THEN 0 ELSE (arg.end - arg.start) \div TicksPerSecond

\* the components of the rendered duration, each a number and a unit
Components == Split(ret[1], " ")

UnitOf(i) == Components[i][Len(Components[i])]

RECURSIVE int_of(_)
int_of(digits) ==
  IF digits = << >> THEN 0
  ELSE 10 * int_of(SubSeq(digits, 1, Len(digits) - 1))
         + (CHOOSE k \in 0..9 : Digits[k + 1] = digits[Len(digits)])

ValueOf(i) == int_of(SubSeq(Components[i], 1, Len(Components[i]) - 1))

UnitSeconds == [u \in {"d", "h", "m", "s"} |->
                  CASE u = "d" -> 86400 [] u = "h" -> 3600 [] u = "m" -> 60 [] OTHER -> 1]

RECURSIVE SecondsOf(_)
SecondsOf(n) ==
  IF n = 0 THEN 0 ELSE SecondsOf(n - 1) + ValueOf(n) * UnitSeconds[UnitOf(n)]

\* ------------------------------------------------------------------------
\* C30: for any start and end, with d = max(0, whole seconds of end - start),
\* compute_duration renders components whose days*86400 + hours*3600 +
\* minutes*60 + seconds is d, with hours < 24, minutes < 60 and seconds < 60,
\* in the order days, hours, minutes, seconds; a day, hour or minute
\* component that is zero is left out, the seconds component is always
\* there, and the result for d = 0 (end before start included) is "0s".
\* ------------------------------------------------------------------------
C30_DurationComponents ==
  (pc = "compute_duration" /\ ret # << >>) =>
    /\ \A i \in 1..Len(Components) :
         /\ Len(Components[i]) >= 2
         /\ UnitOf(i) \in {"d", "h", "m", "s"}
         /\ \A k \in 1..(Len(Components[i]) - 1) :
              Components[i][k] \in Range(Digits)
         /\ UnitOf(i) = "h" => ValueOf(i) < 24
         /\ UnitOf(i) \in {"m", "s"} => ValueOf(i) < 60
         /\ UnitOf(i) # "s" => ValueOf(i) > 0
         /\ \A j \in 1..(i - 1) : UnitSeconds[UnitOf(j)] > UnitSeconds[UnitOf(i)]
    /\ UnitOf(Len(Components)) = "s"
    /\ SecondsOf(Len(Components)) = WholeSeconds
    /\ WholeSeconds = 0 => ret[1] = << "0", "s" >>

\* a day, one hour and one second with no minutes, from a start with a
\* fraction of a second
C30_Witness ==
  /\ pc = "compute_duration" /\ ret # << >>
  /\ arg.start = TicksPerSecond + 1
  /\ WholeSeconds = 86400 + 3600 + 59
  /\ ret[1] = << "1","d"," ","1","h"," ","5","9","s" >>

====
